---- MODULE Spec2Model ----
(***************************************************************************)
(* The chunked voxel world of js/world/World.js (class World, the exported *)
(* one) together with the block registry of ResourceManager: sparse chunk  *)
(* storage, terrain generation with tree stamping, chunk load/unload       *)
(* around a position, block placement/removal and save/load.               *)
(*                                                                         *)
(* A THREE.Mesh is a record [position, blockType]; a JS array is a         *)
(* sequence; the Map `chunks` is a sequence of [key, blocks] entries in    *)
(* insertion order; the Map `blockData` is a function whose domain is the  *)
(* set of keys, a key `${x},${y},${z}` being the triple <<x, y, z>>.       *)
(***************************************************************************)
EXTENDS Integers, Sequences, FiniteSets, TLC

(***************************************************************************)
(* Bounds.  The world's dimensions are scaled down so that whole chunks    *)
(* fit in a state; the source's values are given in the comments.          *)
(***************************************************************************)
\* chunkSize.x (16 in the source)
chunkSizeX == 2
\* chunkSize.y, the world height (256 in the source)
chunkSizeY == 8
\* chunkSize.z (16 in the source)
chunkSizeZ == 1
\* terrainHeightMin (64 in the source)
terrainHeightMin == 2
\* terrainHeightMax (128 in the source)
terrainHeightMax == 4
\* renderDistance (6 by default, set by init(options))
renderDistance == 1
\* number of World operations in one behaviour
MaxSteps == 4
\* number of Game operations in one behaviour
MaxGameSteps == 3

(***************************************************************************)
(* Program constants.                                                      *)
(***************************************************************************)
\* structures.tree.height
treeHeight == 5
\* structures.tree.canopyRadius
canopyRadius == 2

(***************************************************************************)
(* ResourceManager: the block registry.                                    *)
(***************************************************************************)
blockTypes ==
  [air    |-> [id |-> 0, name |-> "Air",         transparent |-> TRUE,  solid |-> FALSE],
   stone  |-> [id |-> 1, name |-> "Stone",       transparent |-> FALSE, solid |-> TRUE],
   grass  |-> [id |-> 2, name |-> "Grass Block", transparent |-> FALSE, solid |-> TRUE],
   dirt   |-> [id |-> 3, name |-> "Dirt",        transparent |-> FALSE, solid |-> TRUE],
   sand   |-> [id |-> 4, name |-> "Sand",        transparent |-> FALSE, solid |-> TRUE],
   water  |-> [id |-> 5, name |-> "Water",       transparent |-> TRUE,  solid |-> FALSE],
   wood   |-> [id |-> 6, name |-> "Wood",        transparent |-> FALSE, solid |-> TRUE],
   leaves |-> [id |-> 7, name |-> "Leaves",      transparent |-> TRUE,  solid |-> TRUE]]

\* variant of getBlockType that answers an unknown name with the stone entry
getBlockTypeStone(name) ==
  IF name \notin DOMAIN blockTypes THEN blockTypes["stone"] ELSE blockTypes[name]

getBlockType(name) ==
  IF name \notin DOMAIN blockTypes THEN blockTypes["air"] ELSE blockTypes[name]

\* the value createBlock returns for "no mesh" (null)
NullBlock == [position |-> <<0, 0, 0>>, blockType |-> "null"]

\* ResourceManager.createBlock followed by World.createBlock: the mesh at
\* (x, y, z) tagged with its block type, or null for an air/unknown type
createBlock(blockType, x, y, z) ==
  IF getBlockType(blockType).name = "Air"
  THEN NullBlock
  ELSE [position |-> <<x, y, z>>, blockType |-> blockType]

(***************************************************************************)
(* Terrain generation.                                                     *)
(***************************************************************************)
\* noise1 * 0.7 + noise2 * 0.3 of generateHeightMap in millionths (rounded
\* down), tabulated from the source's formula
\*   noise1 = sin(nx) * cos(nz) * 0.5 + 0.5
\*   noise2 = cos(nx * 0.5) * sin(nz * 0.5) * 0.5 + 0.5
\* with nx = worldX * 0.01, nz = worldZ * 0.01, for worldX in -12..12 (rows)
\* and worldZ in -8..8 (columns)
NoiseTable ==
  <<
    <<452247, 452963, 453684, 454410, 455139, 455873, 456611, 457354, 458100, 458851, 459606, 460365, 461128, 461895, 462667, 463442, 464222>>,
    <<455711, 456430, 457154, 457881, 458613, 459348, 460087, 460830, 461577, 462328, 463082, 463841, 464603, 465369, 466139, 466912, 467689>>,
    <<459179, 459901, 460627, 461357, 462090, 462826, 463567, 464310, 465058, 465809, 466563, 467321, 468082, 468846, 469614, 470386, 471160>>,
    <<462650, 463375, 464104, 464836, 465570, 466309, 467050, 467794, 468542, 469293, 470047, 470804, 471564, 472327, 473093, 473863, 474635>>,
    <<466125, 466853, 467584, 468318, 469054, 469794, 470536, 471281, 472029, 472780, 473534, 474290, 475049, 475811, 476575, 477343, 478112>>,
    <<469603, 470334, 471067, 471803, 472541, 473282, 474025, 474771, 475520, 476270, 477023, 477779, 478537, 479297, 480060, 480825, 481593>>,
    <<473084, 473817, 474553, 475290, 476030, 476773, 477517, 478263, 479012, 479763, 480516, 481270, 482027, 482786, 483547, 484310, 485075>>,
    <<476566, 477302, 478040, 478780, 479522, 480265, 481011, 481758, 482507, 483257, 484010, 484764, 485520, 486277, 487036, 487797, 488559>>,
    <<480051, 480790, 481530, 482272, 483015, 483760, 484506, 485254, 486003, 486754, 487506, 488259, 489014, 489770, 490527, 491285, 492045>>,
    <<483537, 484278, 485021, 485765, 486510, 487256, 488003, 488752, 489501, 490252, 491003, 491755, 492509, 493263, 494019, 494775, 495532>>,
    <<487024, 487768, 488513, 489259, 490006, 490753, 491501, 492250, 493000, 493750, 494501, 495253, 496005, 496758, 497512, 498266, 499020>>,
    <<490512, 491259, 492007, 492754, 493503, 494251, 495000, 495750, 496500, 497250, 498000, 498751, 499502, 500253, 501005, 501757, 502509>>,
    <<494001, 494751, 495500, 496250, 497000, 497750, 498500, 499250, 500000, 500749, 501499, 502249, 502999, 503749, 504499, 505248, 505998>>,
    <<497490, 498242, 498994, 499746, 500497, 501248, 501999, 502749, 503499, 504249, 504999, 505748, 506496, 507245, 507992, 508740, 509487>>,
    <<500979, 501733, 502487, 503241, 503994, 504746, 505498, 506249, 506999, 507749, 508498, 509246, 509993, 510740, 511486, 512231, 512975>>,
    <<504467, 505224, 505980, 506736, 507490, 508244, 508996, 509747, 510498, 511247, 511996, 512743, 513489, 514234, 514978, 515721, 516462>>,
    <<507954, 508714, 509472, 510229, 510985, 511740, 512493, 513245, 513996, 514745, 515493, 516239, 516984, 517727, 518469, 519209, 519948>>,
    <<511440, 512202, 512963, 513722, 514479, 515235, 515989, 516742, 517492, 518241, 518988, 519734, 520477, 521219, 521959, 522697, 523433>>,
    <<514924, 515689, 516452, 517213, 517972, 518729, 519483, 520236, 520987, 521736, 522482, 523226, 523969, 524709, 525446, 526182, 526915>>,
    <<518406, 519174, 519939, 520702, 521462, 522220, 522976, 523729, 524479, 525228, 525974, 526717, 527458, 528196, 528932, 529665, 530396>>,
    <<521887, 522656, 523424, 524188, 524950, 525709, 526465, 527219, 527970, 528718, 529463, 530205, 530945, 531681, 532415, 533146, 533874>>,
    <<525364, 526136, 526906, 527672, 528435, 529195, 529952, 530706, 531457, 532205, 532949, 533690, 534429, 535163, 535895, 536624, 537349>>,
    <<528839, 529613, 530385, 531153, 531917, 532678, 533436, 534190, 534941, 535689, 536432, 537173, 537909, 538642, 539372, 540098, 540820>>,
    <<532310, 533087, 533860, 534630, 535396, 536158, 536917, 537671, 538422, 539169, 539912, 540651, 541386, 542118, 542845, 543569, 544288>>,
    <<535777, 536557, 537332, 538104, 538871, 539634, 540393, 541148, 541899, 542645, 543388, 544126, 544860, 545589, 546315, 547036, 547752>>
  >>

combinedNoise(worldX, worldZ) == NoiseTable[worldX + 13][worldZ + 9]

\* One call's draws of Math.random: `jitter` is the value of
\* Math.floor(Math.random() * 3) - 1 in generateHeightMap (one of -1, 0, 1),
\* `tree` the column (if any) at which Math.random() < 0.02 holds in
\* shouldGenerateTree
NoTree == <<"none">>
RandomDraws ==
  {[jitter |-> 0, tree |-> NoTree],
   [jitter |-> 1, tree |-> <<0, 0>>]}

\* variant of columnHeight with a random variation of -3, 0 or 3
columnHeightWide(heightMin, heightMax, noise, jitter) ==
  heightMin + ((noise * (heightMax - heightMin)) \div 1000000) + 3 * jitter

\* the height generateHeightMap computes for one column:
\* Math.floor(terrainHeightMin + combinedNoise * (terrainHeightMax -
\* terrainHeightMin)) plus the random variation, the noise in millionths
columnHeight(heightMin, heightMax, noise, jitter) ==
  heightMin + ((noise * (heightMax - heightMin)) \div 1000000) + jitter

\* heightMap[x][z] of generateHeightMap, x and z local to the chunk
generateHeightMap(chunkX, chunkZ, rnd) ==
  LET chunkWorldX == chunkX * chunkSizeX
      chunkWorldZ == chunkZ * chunkSizeZ
  IN [x \in 0..(chunkSizeX - 1) |->
       [z \in 0..(chunkSizeZ - 1) |->
          columnHeight(terrainHeightMin, terrainHeightMax,
                       combinedNoise(chunkWorldX + x, chunkWorldZ + z),
                       rnd.jitter)]]

\* variant of determineBlockType with dirt up to and including the surface
determineBlockTypeNoGrass(x, y, z, surfaceHeight) ==
  IF y = 0 THEN "stone"
  ELSE IF y < surfaceHeight - 4 THEN "stone"
  ELSE IF y <= surfaceHeight THEN "dirt"
  ELSE "air"

determineBlockType(x, y, z, surfaceHeight) ==
  IF y = 0 THEN "stone"
  ELSE IF y < surfaceHeight - 4 THEN "stone"
  ELSE IF y < surfaceHeight THEN "dirt"
  ELSE IF y = surfaceHeight THEN "grass"
  ELSE "air"

shouldGenerateTree(rnd, x, y, z) == rnd.tree = <<x, z>>

\* structures.tree.getBlock; Math.sqrt(d2) <= 2.5 is 4 * d2 <= 25
treeGetBlock(x, y, z) ==
  IF x = 0 /\ z = 0 /\ y < 4 THEN "wood"
  ELSE IF y >= 3 /\ y <= 6 /\ 4 * (x * x + (y - 5) * (y - 5) + z * z) <= 25
       THEN "leaves"
       ELSE "air"

\* the meshes generateStructure('tree', x, y, z, blockArray) pushes, in the
\* order of its dx, dy, dz loops; each is also written to blockData
generateStructure(x, y, z) ==
  LET n == 2 * canopyRadius + 1
      m == treeHeight + 1
      cell(i) == LET dx == ((i - 1) \div (n * m)) - canopyRadius
                     dy == ((i - 1) \div n) % m
                     dz == ((i - 1) % n) - canopyRadius
                 IN createBlock(treeGetBlock(dx, dy, dz), x + dx, y + dy, z + dz)
      cells == [i \in 1..(n * m * n) |-> cell(i)]
  IN SelectSeq(cells, LAMBDA b : b # NullBlock)

\* the meshes the y loop of generateChunk pushes for one column of a chunk
\* sizeY high
columnBlocksOf(worldX, worldZ, height, sizeY) ==
  LET cells == [i \in 1..sizeY |->
                  createBlock(determineBlockType(worldX, i - 1, worldZ, height),
                              worldX, i - 1, worldZ)]
  IN SelectSeq(cells, LAMBDA b : b # NullBlock)

\* the meshes the y loop of generateChunk pushes for one column
columnBlocks(worldX, worldZ, height) ==
  columnBlocksOf(worldX, worldZ, height, chunkSizeY)

\* what one pass of the x/z loops of generateChunk pushes, as the sequence
\* of its parts in order: for each column (x outer, z inner) the meshes of
\* the y loop, then the meshes of the tree (none if no tree is generated)
chunkParts(chunkX, chunkZ, rnd) ==
  LET heightMap == generateHeightMap(chunkX, chunkZ, rnd)
  IN [i \in 1..(2 * chunkSizeX * chunkSizeZ) |->
        LET c == (i - 1) \div 2
            x == c \div chunkSizeZ
            z == c % chunkSizeZ
            worldX == chunkX * chunkSizeX + x
            worldZ == chunkZ * chunkSizeZ + z
            height == heightMap[x][z]
        IN IF i % 2 = 1
           THEN columnBlocks(worldX, worldZ, height)
           ELSE IF shouldGenerateTree(rnd, worldX, height, worldZ)
                THEN generateStructure(worldX, height, worldZ)
                ELSE <<>>]

\* seqs[lo] \o ... \o seqs[hi] (the range is halved to keep the evaluation
\* shallow)
RECURSIVE concat(_, _, _)
concat(seqs, lo, hi) ==
  IF lo > hi THEN <<>>
  ELSE IF lo = hi THEN seqs[lo]
  ELSE LET mid == (lo + hi) \div 2
       IN concat(seqs, lo, mid) \o concat(seqs, mid + 1, hi)

(***************************************************************************)
(* World state.                                                            *)
(***************************************************************************)
VARIABLES
  chunks,             \* Map "x,z" -> chunk, as a sequence of [key, blocks]
  blockData,          \* Map "x,y,z" -> block type
  collidableObjects,  \* array of meshes
  seed,               \* world seed
  saved,              \* the worldData last returned by save()
  last,               \* the last operation, its arguments and its result
  generated,          \* every generateChunk call so far: [key, written]
  steps               \* number of operations so far

worldVars == <<chunks, blockData, collidableObjects, seed, saved, last, generated, steps>>
worldVarsButSteps == <<chunks, blockData, collidableObjects, seed, saved, last, generated>>

Seeds == {42}
NoSave == [seed |-> 0, blocks |-> {}, version |-> 0]

\* chunks.has(key), chunks.get(key)
chunkKeys(chs) == {chs[i].key : i \in DOMAIN chs}
chunksHas(chs, key) == key \in chunkKeys(chs)
chunkIndex(chs, key) == CHOOSE i \in DOMAIN chs : chs[i].key = key

\* Math.floor of a coordinate given in half blocks
MathFloor(h) == h \div 2

\* the key of the chunk containing world column (x, z)
chunkKeyOf(x, z) == <<x \div chunkSizeX, z \div chunkSizeZ>>

updateCollidableObjects(chs) ==
  concat([i \in DOMAIN chs |-> chs[i].blocks], 1, Len(chs))

getBlockAt(bd, x, y, z) ==
  IF <<x, y, z>> \in DOMAIN bd THEN bd[<<x, y, z>>] ELSE "air"

isSolid(bd, x, y, z) == getBlockType(getBlockAt(bd, x, y, z)).solid

\* an empty Map
EmptyMap == [p \in {} |-> "air"]

\* blockData.set(key, blockType)
set(bd, key, blockType) == (key :> blockType) @@ bd

\* the Map holding the entries of `later` and, for every other key, those of
\* `earlier`
overwrite(later, earlier) ==
  LET keys == DOMAIN later
  IN [p \in keys \cup DOMAIN earlier |-> IF p \in keys THEN later[p] ELSE earlier[p]]

\* the entries the blockData.set calls for the meshes ws, in order, leave: the
\* last write to a key wins
written(ws) ==
  LET keys == {ws[i].position : i \in DOMAIN ws}
      lastWrite(p) == CHOOSE i \in DOMAIN ws :
                        /\ ws[i].position = p
                        /\ \A j \in DOMAIN ws : ws[j].position = p => j <= i
  IN [p \in keys |-> ws[lastWrite(p)].blockType]

\* the entries the writes for parts[lo], ..., parts[hi] leave, a later part
\* overwriting an earlier one
RECURSIVE writtenParts(_, _, _)
writtenParts(parts, lo, hi) ==
  IF lo > hi THEN EmptyMap
  ELSE IF lo = hi THEN written(parts[lo])
  ELSE LET mid == (lo + hi) \div 2
       IN writtenParts(parts, mid + 1, hi) @@ writtenParts(parts, lo, mid)

deleteKey(bd, p) == [q \in (DOMAIN bd) \ {p} |-> bd[q]]

(***************************************************************************)
(* Inputs.                                                                 *)
(***************************************************************************)
\* positions <<x, z>> the chunks are loaded around: in chunk (-1, 0) and in
\* chunk (1, 1)
Positions == {<<-1, 0>>, <<chunkSizeX, chunkSizeZ>>}

\* raw target coordinates of placeBlock/removeBlock, in half blocks:
\* (0.5, 3.5, 0.5) in chunk (0, 0) and (-0.5, 7.5, 0.5) in chunk (-1, 0)
Targets == {<<1, 7, 1>>, <<-1, 15, 1>>}

\* block types handed to placeBlock; "bogus" is not in the registry
PlaceTypes == {"stone", "leaves", "bogus"}

(***************************************************************************)
(* World operations, as functions of the state they read.                  *)
(***************************************************************************)
\* the chunk keys visited by the x/z loops of loadChunksAroundPosition, in
\* loop order; position is <<x, z>>
squareKeys(position) ==
  LET centerChunkX == position[1] \div chunkSizeX
      centerChunkZ == position[2] \div chunkSizeZ
      n == 2 * renderDistance + 1
  IN [i \in 1..(n * n) |->
        <<centerChunkX + ((i - 1) \div n) - renderDistance,
          centerChunkZ + ((i - 1) % n) - renderDistance>>]

\* generateChunk(chunkX, chunkZ): chunk.blocks of the chunk it returns, and
\* the blockData entries its blockData.set calls leave
generateChunk(chunkX, chunkZ, rnd) ==
  LET parts == chunkParts(chunkX, chunkZ, rnd)
  IN [blocks |-> concat(parts, 1, Len(parts)),
      written |-> writtenParts(parts, 1, Len(parts))]

\* generateChunk reads no state: its results for the chunk keys and draws the
\* inputs reach, evaluated once
ReachableKeys ==
  UNION {{squareKeys(p)[i] : i \in DOMAIN squareKeys(p)} : p \in Positions}

generatedChunks ==
  [k \in ReachableKeys, rnd \in RandomDraws |-> generateChunk(k[1], k[2], rnd)]

\* the entries the generateChunk calls for keys[lo], ..., keys[hi] leave, a
\* later chunk overwriting an earlier one
RECURSIVE writtenChunks(_, _, _, _)
writtenChunks(keys, rnd, lo, hi) ==
  IF lo > hi THEN EmptyMap
  ELSE IF lo = hi THEN generatedChunks[keys[lo], rnd].written
  ELSE LET mid == (lo + hi) \div 2
       IN overwrite(writtenChunks(keys, rnd, mid + 1, hi),
                    writtenChunks(keys, rnd, lo, mid))

\* variant of keysToGenerate without the `chunks.has(chunkKey)` skip
keysToGenerateAll(chs, position) == squareKeys(position)

\* the keys for which the generation loop calls generateChunk: those not
\* skipped by `if (this.chunks.has(chunkKey)) continue`
keysToGenerate(chs, position) ==
  SelectSeq(squareKeys(position), LAMBDA k : ~chunksHas(chs, k))

\* variant of unloadChunks that deletes nothing
unloadChunksKeepAll(chs, chunksToKeep) == chs

\* the unload loop: every chunk whose key is not in chunksToKeep is deleted
unloadChunks(chs, chunksToKeep) ==
  SelectSeq(chs, LAMBDA c : c.key \in chunksToKeep)

loadChunksAroundPosition(chs, bd, position, rnd) ==
  LET keys == squareKeys(position)
      chunksToKeep == {keys[i] : i \in DOMAIN keys}
      newKeys == keysToGenerate(chs, position)
      newlyLoadedChunks ==
        [i \in DOMAIN newKeys |->
           [key |-> newKeys[i],
            blocks |-> generatedChunks[newKeys[i], rnd].blocks]]
      kept == unloadChunks(chs \o newlyLoadedChunks, chunksToKeep)
  IN [chunks |-> kept,
      blockData |-> overwrite(writtenChunks(newKeys, rnd, 1, Len(newKeys)), bd),
      collidableObjects |-> updateCollidableObjects(kept),
      newlyLoadedChunks |-> newlyLoadedChunks]

\* variant of placeBlock that writes blockData and collidableObjects before
\* it looks the chunk up
placeBlockWriteFirst(chs, bd, co, blockType, px, py, pz) ==
  LET x == MathFloor(px)
      y == MathFloor(py)
      z == MathFloor(pz)
      block == createBlock(blockType, x, y, z)
      chunkKey == chunkKeyOf(x, z)
      unchanged == [chunks |-> chs, blockData |-> bd,
                    collidableObjects |-> co, ret |-> FALSE]
  IN IF getBlockAt(bd, x, y, z) # "air" THEN unchanged
     ELSE IF block = NullBlock THEN unchanged
     ELSE IF chunksHas(chs, chunkKey)
          THEN [chunks |-> [chs EXCEPT ![chunkIndex(chs, chunkKey)].blocks =
                                          Append(@, block)],
                blockData |-> set(bd, <<x, y, z>>, blockType),
                collidableObjects |-> Append(co, block),
                ret |-> TRUE]
          ELSE [chunks |-> chs,
                blockData |-> set(bd, <<x, y, z>>, blockType),
                collidableObjects |-> Append(co, block),
                ret |-> FALSE]

\* variant of placeBlock without the `getBlockAt(x, y, z) !== 'air'` check
placeBlockOverwrite(chs, bd, co, blockType, px, py, pz) ==
  LET x == MathFloor(px)
      y == MathFloor(py)
      z == MathFloor(pz)
      block == createBlock(blockType, x, y, z)
      chunkKey == chunkKeyOf(x, z)
      unchanged == [chunks |-> chs, blockData |-> bd,
                    collidableObjects |-> co, ret |-> FALSE]
  IN IF block = NullBlock THEN unchanged
     ELSE IF chunksHas(chs, chunkKey)
          THEN [chunks |-> [chs EXCEPT ![chunkIndex(chs, chunkKey)].blocks =
                                          Append(@, block)],
                blockData |-> set(bd, <<x, y, z>>, blockType),
                collidableObjects |-> Append(co, block),
                ret |-> TRUE]
          ELSE unchanged

\* placeBlock; px, py, pz are the raw coordinates in half blocks
placeBlock(chs, bd, co, blockType, px, py, pz) ==
  LET x == MathFloor(px)
      y == MathFloor(py)
      z == MathFloor(pz)
      block == createBlock(blockType, x, y, z)
      chunkKey == chunkKeyOf(x, z)
      unchanged == [chunks |-> chs, blockData |-> bd,
                    collidableObjects |-> co, ret |-> FALSE]
  IN IF getBlockAt(bd, x, y, z) # "air" THEN unchanged
     ELSE IF block = NullBlock THEN unchanged
     ELSE IF chunksHas(chs, chunkKey)
          THEN [chunks |-> [chs EXCEPT ![chunkIndex(chs, chunkKey)].blocks =
                                          Append(@, block)],
                blockData |-> set(bd, <<x, y, z>>, blockType),
                collidableObjects |-> Append(co, block),
                ret |-> TRUE]
          ELSE unchanged

\* chunk.blocks.findIndex(block => block.position equals (x, y, z)); 0 for -1
findIndex(blocks, x, y, z) ==
  IF \E i \in DOMAIN blocks : blocks[i].position = <<x, y, z>>
  THEN CHOOSE i \in DOMAIN blocks :
         /\ blocks[i].position = <<x, y, z>>
         /\ \A j \in DOMAIN blocks : blocks[j].position = <<x, y, z>> => i <= j
  ELSE 0

\* blocks.splice(blockIndex, 1)
splice(blocks, blockIndex) ==
  SubSeq(blocks, 1, blockIndex - 1) \o SubSeq(blocks, blockIndex + 1, Len(blocks))

\* variant of removeBlock without `blockData.delete`
removeBlockKeepData(chs, bd, co, px, py, pz) ==
  LET x == MathFloor(px)
      y == MathFloor(py)
      z == MathFloor(pz)
      chunkKey == chunkKeyOf(x, z)
      unchanged == [chunks |-> chs, blockData |-> bd,
                    collidableObjects |-> co, ret |-> FALSE]
  IN IF getBlockAt(bd, x, y, z) = "air" THEN unchanged
     ELSE IF chunksHas(chs, chunkKey)
          THEN LET ci == chunkIndex(chs, chunkKey)
                   blockIndex == findIndex(chs[ci].blocks, x, y, z)
                   spliced == [chs EXCEPT ![ci].blocks = splice(@, blockIndex)]
               IN IF blockIndex # 0
                  THEN [chunks |-> spliced,
                        blockData |-> bd,
                        collidableObjects |-> updateCollidableObjects(spliced),
                        ret |-> TRUE]
                  ELSE unchanged
          ELSE unchanged

\* variant of removeBlock without the closing updateCollidableObjects()
removeBlockNoUpdate(chs, bd, co, px, py, pz) ==
  LET x == MathFloor(px)
      y == MathFloor(py)
      z == MathFloor(pz)
      chunkKey == chunkKeyOf(x, z)
      unchanged == [chunks |-> chs, blockData |-> bd,
                    collidableObjects |-> co, ret |-> FALSE]
  IN IF getBlockAt(bd, x, y, z) = "air" THEN unchanged
     ELSE IF chunksHas(chs, chunkKey)
          THEN LET ci == chunkIndex(chs, chunkKey)
                   blockIndex == findIndex(chs[ci].blocks, x, y, z)
                   spliced == [chs EXCEPT ![ci].blocks = splice(@, blockIndex)]
               IN IF blockIndex # 0
                  THEN [chunks |-> spliced,
                        blockData |-> deleteKey(bd, <<x, y, z>>),
                        collidableObjects |-> co,
                        ret |-> TRUE]
                  ELSE unchanged
          ELSE unchanged

\* removeBlock; px, py, pz are the raw coordinates in half blocks
removeBlock(chs, bd, co, px, py, pz) ==
  LET x == MathFloor(px)
      y == MathFloor(py)
      z == MathFloor(pz)
      chunkKey == chunkKeyOf(x, z)
      unchanged == [chunks |-> chs, blockData |-> bd,
                    collidableObjects |-> co, ret |-> FALSE]
  IN IF getBlockAt(bd, x, y, z) = "air" THEN unchanged
     ELSE IF chunksHas(chs, chunkKey)
          THEN LET ci == chunkIndex(chs, chunkKey)
                   blockIndex == findIndex(chs[ci].blocks, x, y, z)
                   spliced == [chs EXCEPT ![ci].blocks = splice(@, blockIndex)]
               IN IF blockIndex # 0
                  THEN [chunks |-> spliced,
                        blockData |-> deleteKey(bd, <<x, y, z>>),
                        collidableObjects |-> updateCollidableObjects(spliced),
                        ret |-> TRUE]
                  ELSE unchanged
          ELSE unchanged

\* save(): every blockData entry, its key split back into numbers
save(bd, sd) ==
  [seed |-> sd,
   blocks |-> {[x |-> p[1], y |-> p[2], z |-> p[3], type |-> bd[p]] : p \in DOMAIN bd},
   version |-> 1]

\* clear()
clear == [chunks |-> <<>>, blockData |-> EmptyMap, collidableObjects |-> <<>>]

\* variant of load that builds the key as `${block.x},${block.z},${block.y}`
loadSwapped(worldData) ==
  [chunks |-> clear.chunks,
   blockData |-> [p \in {<<b.x, b.z, b.y>> : b \in worldData.blocks} |->
                    CHOOSE type \in DOMAIN blockTypes :
                      [x |-> p[1], y |-> p[3], z |-> p[2], type |-> type]
                        \in worldData.blocks],
   collidableObjects |-> clear.collidableObjects,
   seed |-> worldData.seed]

\* load(worldData): clear(), then the seed and one blockData.set per block.
\* The blocks of a worldData have distinct coordinates (save() emits one per
\* key of a Map), so the entry left at a key is the type of the one block
\* with these coordinates; a saved type is a type of the registry.
load(worldData) ==
  [chunks |-> clear.chunks,
   blockData |-> [p \in {<<b.x, b.y, b.z>> : b \in worldData.blocks} |->
                    CHOOSE type \in DOMAIN blockTypes :
                      [x |-> p[1], y |-> p[2], z |-> p[3], type |-> type]
                        \in worldData.blocks],
   collidableObjects |-> clear.collidableObjects,
   seed |-> worldData.seed]

(***************************************************************************)
(* Game: the player, the sky and the stored save (js/Game.js, the exported *)
(* class Player of js/entities/Player.js, js/world/Sky.js).  A JS null is  *)
(* the record Null; a field that is undefined is absent from its record.   *)
(***************************************************************************)
VARIABLES
  player,    \* Player fields position, rotation, health, hunger, experience, inventory
  sky,       \* Sky fields time, currentWeather
  storage,   \* localStorage item 'minecraft_clone_save' (Null if none)
  lastGame   \* the last Game method called, its argument and its result

gameVars == <<player, sky, storage, lastGame>>

Null == [null |-> TRUE]

\* the Player fields save() and load() touch, after the constructor and init()
newPlayer ==
  [position |-> <<0, 100, 0>>, rotation |-> <<0, 0, 0>>, health |-> 20,
   hunger |-> 20, experience |-> 0, inventory |-> "empty"]

\* the Sky fields after `new Sky(scene)` and `sky.setTime(8000)`
newSky == [time |-> 8000, currentWeather |-> "clear"]

\* Player.takeDamage(amount)
takeDamage(pl, amount) ==
  [pl EXCEPT !.health = IF pl.health - amount < 0 THEN 0 ELSE pl.health - amount]

\* Player.save()
playerSave(pl) ==
  [position |-> pl.position, rotation |-> pl.rotation, health |-> pl.health,
   hunger |-> pl.hunger, experience |-> pl.experience, inventory |-> pl.inventory]

\* Player.load(data): the fields are assigned one by one, then the body goes
\* on to `this.playerGroup.add(this.head)`; the exported class Player never
\* assigns playerGroup, so this statement throws a TypeError.  The result is
\* the player as the throw leaves it.
playerLoad(pl, data) ==
  [player |-> [position   |-> IF "position" \in DOMAIN data THEN data.position ELSE pl.position,
               rotation   |-> IF "rotation" \in DOMAIN data THEN data.rotation ELSE pl.rotation,
               health     |-> IF "health" \in DOMAIN data THEN data.health ELSE pl.health,
               hunger     |-> IF "hunger" \in DOMAIN data THEN data.hunger ELSE pl.hunger,
               experience |-> IF "experience" \in DOMAIN data THEN data.experience ELSE pl.experience,
               inventory  |-> IF "inventory" \in DOMAIN data THEN data.inventory ELSE pl.inventory],
   threw |-> TRUE]

\* Sky.setTime(time), Sky.setWeather(type)
setTime(sk, time) ==
  [sk EXCEPT !.time = IF time < 0 THEN 0 ELSE IF time > 24000 THEN 24000 ELSE time]
setWeather(sk, type) == [sk EXCEPT !.currentWeather = type]

\* World.load(worldData) as Game.loadGame sees it: clear() and the seed are
\* applied first; the loop over worldData.blocks throws a TypeError at an
\* entry that is null (`block.x` of null).  The arrays handed in here have
\* the null entry first, so no blockData.set precedes the throw.
worldLoad(worldData) ==
  IF Null \in worldData.blocks
  THEN [chunks |-> clear.chunks, blockData |-> clear.blockData,
        collidableObjects |-> clear.collidableObjects,
        seed |-> worldData.seed, threw |-> TRUE]
  ELSE [chunks |-> load(worldData).chunks, blockData |-> load(worldData).blockData,
        collidableObjects |-> load(worldData).collidableObjects,
        seed |-> load(worldData).seed, threw |-> FALSE]

\* Game.saveGame(): the gameData it builds (timestamp left out)
saveGame(pl, sk, bd, sd) ==
  [version |-> 1,
   player |-> playerSave(pl),
   world |-> [seed |-> sd, time |-> sk.time, weather |-> sk.currentWeather,
              blocks |-> save(bd, sd).blocks]]

\* variant of loadGame that checks the version after Player.load
loadGameLateCheck(pl, sk, w, item, saveData) ==
  LET data == IF saveData = Null THEN item ELSE saveData
      unchanged == [player |-> pl, sky |-> sk, world |-> w, ret |-> FALSE]
      pr == IF data.player # Null
            THEN playerLoad(pl, data.player)
            ELSE [player |-> pl, threw |-> FALSE]
  IN IF data = Null THEN unchanged
     ELSE [unchanged EXCEPT !.player = pr.player]

\* Game.loadGame(saveData): the state it leaves and the value it returns.
\* w is [chunks, blockData, collidableObjects, seed]; item is the stored save.
loadGame(pl, sk, w, item, saveData) ==
  LET data == IF saveData = Null THEN item ELSE saveData
      unchanged == [player |-> pl, sky |-> sk, world |-> w, ret |-> FALSE]
      pr == IF data.player # Null
            THEN playerLoad(pl, data.player)
            ELSE [player |-> pl, threw |-> FALSE]
      wr == worldLoad(data.world)
      loaded == [chunks |-> wr.chunks, blockData |-> wr.blockData,
                 collidableObjects |-> wr.collidableObjects, seed |-> wr.seed]
  IN IF data = Null THEN unchanged
     ELSE IF data.version # 1 THEN unchanged
     ELSE IF pr.threw THEN [unchanged EXCEPT !.player = pr.player]
     ELSE IF data.world = Null
          THEN [player |-> pr.player, sky |-> sk, world |-> w, ret |-> TRUE]
     ELSE IF wr.threw
          THEN [player |-> pr.player, sky |-> sk, world |-> loaded, ret |-> FALSE]
          ELSE [player |-> pr.player,
                sky |-> setWeather(setTime(sk, data.world.time), data.world.weather),
                world |-> loaded, ret |-> TRUE]

(***************************************************************************)
(* The first class World of js/world/World.js (lines 4-250), a flat world  *)
(* of unit cubes centred on integer coordinates, and the position and      *)
(* velocity vectors its resolveBlockCollision is handed.                   *)
(***************************************************************************)
VARIABLES
  legacyBlocks,   \* positions of the meshes in this.blocks of the first class World
  legacyPlayer    \* the position and velocity vectors handed to resolveBlockCollision

legacyVars == <<legacyBlocks, legacyPlayer>>

NoLegacyPlayer == [position |-> <<0, 0, 0>>, velocity |-> <<0, 0, 0>>]

\* no first-class World has been constructed
legacyIdle ==
  /\ legacyBlocks = {}
  /\ legacyPlayer = NoLegacyPlayer

(***************************************************************************)
(* The edits the player has made with placeBlock and removeBlock, and what *)
(* has happened to the chunk of each since.                                *)
(***************************************************************************)
VARIABLES
  edits   \* edited position -> the value the edit left and the phase of its chunk

NoEdits == [p \in {} |-> [value |-> "air", phase |-> "edited"]]

(***************************************************************************)
(* The animation loop of Game (js/Game.js lines 338-517, 601-619).         *)
(***************************************************************************)
VARIABLES
  isRunning,      \* Game.isRunning
  isPaused,       \* Game.isPaused
  frameCounter,   \* Game.frameCounter
  frameRequests   \* the animate callbacks pending in requestAnimationFrame

loopVars == <<isRunning, isPaused, frameCounter, frameRequests>>

\* the fields after the Game constructor
loopIdle ==
  /\ isRunning = FALSE
  /\ isPaused = FALSE
  /\ frameCounter = 0
  /\ frameRequests = 0

\* animate(): one more callback is requested while the game is running
animate(g) ==
  IF ~g.isRunning THEN g
  ELSE [g EXCEPT !.frameRequests = @ + 1, !.frameCounter = @ + 1]

\* start()
start(g) ==
  IF g.isRunning THEN g
  ELSE animate([g EXCEPT !.isRunning = TRUE, !.isPaused = FALSE])

\* stop(): no pending callback is cancelled
stop(g) ==
  IF ~g.isRunning THEN g
  ELSE [g EXCEPT !.isRunning = FALSE, !.isPaused = FALSE]

\* resetGame()
resetGame(g) == start(stop(g))

\* pause()
pause(g) ==
  IF ~g.isRunning \/ g.isPaused THEN g ELSE [g EXCEPT !.isPaused = TRUE]

\* resume()
resume(g) ==
  IF ~g.isRunning \/ ~g.isPaused THEN g ELSE [g EXCEPT !.isPaused = FALSE]

(***************************************************************************)
(* SettingsManager (js/core/SettingsManager.js).  A path 'a.b' is the      *)
(* sequence <<"a", "b">> of its keys; the settings object is the function  *)
(* from the paths of its leaves to their values; changeListeners is the    *)
(* set of its (path, id) entries.                                          *)
(***************************************************************************)
VARIABLES
  settings,          \* SettingsManager.settings
  changeListeners,   \* SettingsManager.changeListeners
  settingsStorage,   \* localStorage item 'minecraft_clone_settings' (Null if none)
  lastSetting        \* the last SettingsManager call: arguments, result, callbacks invoked

settingsVars == <<settings, changeListeners, settingsStorage, lastSetting>>

\* the part of defaultSettings the calls below touch
defaultSettings ==
  (<<"graphics", "shadowQuality">> :> "medium")
  @@ (<<"controls", "keyBindings", "forward">> :> "KeyW")
  @@ (<<"gameplay", "difficulty">> :> "normal")

NoSettingCall ==
  [op |-> "new", path |-> <<>>, value |-> "", ret |-> TRUE, calls |-> <<>>, saves |-> 0,
   stored |-> ""]

\* the fields after the SettingsManager constructor
settingsIdle ==
  /\ settings = defaultSettings
  /\ changeListeners = {}
  /\ settingsStorage = Null
  /\ lastSetting = NoSettingCall

\* the ids of the listeners registered on path, in ascending order
RECURSIVE idsInOrder(_)
idsInOrder(ids) ==
  IF ids = {} THEN <<>>
  ELSE LET least == CHOOSE i \in ids : \A j \in ids : i <= j
       IN <<least>> \o idsInOrder(ids \ {least})

\* changeListeners.get(registered).forEach(callback => callback(value, path))
callbacks(listeners, registered, path) ==
  LET ids == idsInOrder({l.id : l \in {m \in listeners : m.path = registered}})
  IN [i \in DOMAIN ids |-> [id |-> ids[i], path |-> path]]

\* notifyListeners(path, value): the callbacks invoked, in order
RECURSIVE notifyListeners(_, _)
notifyListeners(listeners, path) ==
  callbacks(listeners, path, path)
  \o (IF Len(path) > 1
      THEN notifyListeners(listeners, SubSeq(path, 1, Len(path) - 1))
      ELSE <<>>)
  \o callbacks(listeners, <<"*">>, path)

\* what current[lastKey] holds; "" for undefined
storedAt(st, path) == IF path \in DOMAIN st THEN st[path] ELSE ""

\* setSetting(path, value)
setSetting(st, listeners, item, path, value) ==
  IF storedAt(st, path) = value
  THEN [settings |-> st, storage |-> item, ret |-> FALSE, calls |-> <<>>, saves |-> 0]
  ELSE [settings |-> (path :> value) @@ st,
        storage |-> (path :> value) @@ st,
        ret |-> TRUE,
        calls |-> notifyListeners(listeners, path),
        saves |-> 1]

otherVars == <<legacyVars, edits, loopVars, settingsVars>>

otherIdle ==
  /\ legacyIdle
  /\ edits = NoEdits
  /\ loopIdle
  /\ settingsIdle

(***************************************************************************)
(* Specification.                                                          *)
(***************************************************************************)
NoGameCall == [op |-> "new", hasData |-> FALSE, version |-> 0, ret |-> TRUE]

\* the Game fields after Game.init
GameIdle ==
  /\ player = newPlayer
  /\ sky = newSky
  /\ storage = Null
  /\ lastGame = NoGameCall

NoCall == [op |-> "new", blockType |-> "", pos |-> <<0, 0, 0>>, ret |-> TRUE, count |-> 0]

vars == <<worldVars, gameVars, otherVars>>

Init ==
  /\ chunks = <<>>
  /\ blockData = EmptyMap
  /\ collidableObjects = <<>>
  /\ seed \in Seeds
  /\ saved = NoSave
  /\ last = NoCall
  /\ generated = {}
  /\ steps = 0
  /\ GameIdle
  /\ otherIdle

\* World.update / loadChunksAroundPosition(position)
loadChunksStep ==
  \E position \in Positions, rnd \in RandomDraws :
    /\ \E r \in {loadChunksAroundPosition(chunks, blockData, position, rnd)} :
       /\ chunks' = r.chunks
       /\ blockData' = r.blockData
       /\ collidableObjects' = r.collidableObjects
       /\ generated' = generated \cup
            {[key |-> r.newlyLoadedChunks[i].key,
              written |-> generatedChunks[r.newlyLoadedChunks[i].key, rnd].written] :
               i \in DOMAIN r.newlyLoadedChunks}
       /\ last' = [op |-> "loadChunksAroundPosition", blockType |-> "",
                   pos |-> <<position[1], 0, position[2]>>, ret |-> TRUE,
                   count |-> Len(r.newlyLoadedChunks)]
       /\ steps' = steps + 1
       /\ UNCHANGED <<seed, saved>>

LoadChunksAroundPosition ==
  /\ steps < MaxSteps
  /\ loadChunksStep
  /\ UNCHANGED <<gameVars, otherVars>>

\* World.placeBlock(blockType, x, y, z)
placeBlockStep(blockType, t) ==
  \E r \in {placeBlock(chunks, blockData, collidableObjects, blockType, t[1], t[2], t[3])} :
     /\ chunks' = r.chunks
     /\ blockData' = r.blockData
     /\ collidableObjects' = r.collidableObjects
     /\ last' = [op |-> "placeBlock", blockType |-> blockType,
                 pos |-> <<MathFloor(t[1]), MathFloor(t[2]), MathFloor(t[3])>>,
                 ret |-> r.ret, count |-> 0]
     /\ steps' = steps + 1
     /\ UNCHANGED <<seed, saved, generated>>

PlaceBlock ==
  \E blockType \in PlaceTypes, t \in Targets :
    /\ steps < MaxSteps
    /\ placeBlockStep(blockType, t)
    /\ UNCHANGED <<gameVars, otherVars>>

\* World.removeBlock(x, y, z)
removeBlockStep(t) ==
  \E r \in {removeBlock(chunks, blockData, collidableObjects, t[1], t[2], t[3])} :
     /\ chunks' = r.chunks
     /\ blockData' = r.blockData
     /\ collidableObjects' = r.collidableObjects
     /\ last' = [op |-> "removeBlock", blockType |-> "",
                 pos |-> <<MathFloor(t[1]), MathFloor(t[2]), MathFloor(t[3])>>,
                 ret |-> r.ret, count |-> 0]
     /\ steps' = steps + 1
     /\ UNCHANGED <<seed, saved, generated>>

RemoveBlock ==
  \E t \in Targets :
    /\ steps < MaxSteps
    /\ removeBlockStep(t)
    /\ UNCHANGED <<gameVars, otherVars>>

Save ==
  /\ steps < MaxSteps
  /\ saved' = save(blockData, seed)
  /\ last' = [NoCall EXCEPT !.op = "save"]
  /\ steps' = steps + 1
  /\ UNCHANGED <<chunks, blockData, collidableObjects, seed, generated>>
  /\ UNCHANGED <<gameVars, otherVars>>

Load ==
  /\ steps < MaxSteps
  /\ saved # NoSave
  /\ \E r \in {load(saved)} :
        /\ chunks' = r.chunks
        /\ blockData' = r.blockData
        /\ collidableObjects' = r.collidableObjects
        /\ seed' = r.seed
  /\ last' = [NoCall EXCEPT !.op = "load"]
  /\ steps' = steps + 1
  /\ UNCHANGED <<saved, generated>>
  /\ UNCHANGED <<gameVars, otherVars>>

Clear ==
  /\ steps < MaxSteps
  /\ chunks' = clear.chunks
  /\ blockData' = clear.blockData
  /\ collidableObjects' = clear.collidableObjects
  /\ last' = [NoCall EXCEPT !.op = "clear"]
  /\ steps' = steps + 1
  /\ UNCHANGED <<seed, saved, generated>>
  /\ UNCHANGED <<gameVars, otherVars>>

Next ==
  \/ LoadChunksAroundPosition
  \/ PlaceBlock
  \/ RemoveBlock
  \/ Save
  \/ Load
  \/ Clear

Spec == Init /\ [][Next]_vars

(***************************************************************************)
(* Specification of a player who edits the world and walks away and back:  *)
(* placeBlock, removeBlock and loadChunksAroundPosition, with a record of  *)
(* the edits.                                                              *)
(***************************************************************************)
\* the phase of an edit's chunk after a loadChunksAroundPosition: evicted
\* once the chunk has left World.chunks, reloaded once it is back
phaseAfter(phase, wasResident, isResident) ==
  IF wasResident /\ ~isResident THEN "evicted"
  ELSE IF phase = "evicted" /\ isResident THEN "reloaded"
  ELSE phase

\* raw target coordinates of the edits, in half blocks: those of Targets and
\* (-0.5, 2.5, 0.5), a terrain block of chunk (-1, 0)
EditTargets == Targets \cup {<<-1, 2 * terrainHeightMin + 1, 1>>}

EditLoadChunks ==
  /\ steps < MaxSteps
  /\ loadChunksStep
  /\ edits' = [p \in DOMAIN edits |->
                 [edits[p] EXCEPT !.phase =
                    phaseAfter(@, chunksHas(chunks, chunkKeyOf(p[1], p[3])),
                               chunksHas(chunks', chunkKeyOf(p[1], p[3])))]]
  /\ UNCHANGED <<gameVars, legacyVars, loopVars, settingsVars>>

EditPlaceBlock ==
  \E blockType \in PlaceTypes, t \in EditTargets :
    /\ steps < MaxSteps
    /\ placeBlockStep(blockType, t)
    /\ edits' = IF last'.ret
                THEN (last'.pos :> [value |-> blockType, phase |-> "edited"]) @@ edits
                ELSE edits
    /\ UNCHANGED <<gameVars, legacyVars, loopVars, settingsVars>>

EditRemoveBlock ==
  \E t \in EditTargets :
    /\ steps < MaxSteps
    /\ removeBlockStep(t)
    /\ edits' = IF last'.ret
                THEN (last'.pos :> [value |-> "air", phase |-> "edited"]) @@ edits
                ELSE edits
    /\ UNCHANGED <<gameVars, legacyVars, loopVars, settingsVars>>

EditNext ==
  \/ EditLoadChunks
  \/ EditPlaceBlock
  \/ EditRemoveBlock

EditSpec == Init /\ [][EditNext]_vars

(***************************************************************************)
(* Specification of the animation loop: the calls of Game.start, stop,     *)
(* resetGame, pause and resume, and the browser running a pending animate  *)
(* callback.                                                               *)
(***************************************************************************)
MaxLoopSteps == 6

gameLoop ==
  [isRunning |-> isRunning, isPaused |-> isPaused, frameCounter |-> frameCounter,
   frameRequests |-> frameRequests]

loopStep(g) ==
  /\ isRunning' = g.isRunning
  /\ isPaused' = g.isPaused
  /\ frameCounter' = g.frameCounter
  /\ frameRequests' = g.frameRequests
  /\ steps' = steps + 1
  /\ UNCHANGED <<worldVarsButSteps, gameVars, legacyVars, edits, settingsVars>>

Start ==
  /\ steps < MaxLoopSteps
  /\ loopStep(start(gameLoop))

Stop ==
  /\ steps < MaxLoopSteps
  /\ loopStep(stop(gameLoop))

ResetGame ==
  /\ steps < MaxLoopSteps
  /\ loopStep(resetGame(gameLoop))

Pause ==
  /\ steps < MaxLoopSteps
  /\ loopStep(pause(gameLoop))

Resume ==
  /\ steps < MaxLoopSteps
  /\ loopStep(resume(gameLoop))

\* the browser takes one pending callback off its list and runs animate
AnimationFrame ==
  /\ steps < MaxLoopSteps
  /\ frameRequests > 0
  /\ loopStep(animate([gameLoop EXCEPT !.frameRequests = @ - 1]))

LoopNext ==
  \/ Start
  \/ Stop
  \/ ResetGame
  \/ Pause
  \/ Resume
  \/ AnimationFrame

LoopSpec == Init /\ [][LoopNext]_vars

(***************************************************************************)
(* Specification of SettingsManager: registerChangeListener,               *)
(* unregisterChangeListener and setSetting.                                *)
(***************************************************************************)
MaxListeners == 2

\* the paths setSetting is called with: two settings of the defaults and a
\* top-level key
SettingPaths ==
  {<<"graphics", "shadowQuality">>, <<"controls", "keyBindings", "forward">>,
   <<"language">>}

SettingValues == {"medium", "low", "KeyW"}

\* the paths listeners are registered on
ListenerPaths ==
  {<<"*">>, <<"graphics">>, <<"graphics", "shadowQuality">>, <<"controls">>,
   <<"controls", "keyBindings", "forward">>, <<"language">>}

\* registerChangeListener(path, callback); the id is one no listener has
RegisterChangeListener ==
  \E path \in ListenerPaths :
    /\ Cardinality(changeListeners) < MaxListeners
    /\ \E id \in {CHOOSE i \in 1..MaxListeners : \A l \in changeListeners : l.id # i} :
         /\ changeListeners' = changeListeners \cup {[path |-> path, id |-> id]}
         /\ lastSetting' = [NoSettingCall EXCEPT !.op = "registerChangeListener",
                                                !.path = path]
    /\ UNCHANGED <<settings, settingsStorage>>
    /\ UNCHANGED <<worldVars, gameVars, legacyVars, edits, loopVars>>

\* unregisterChangeListener(path, id)
UnregisterChangeListener ==
  \E l \in changeListeners :
    /\ changeListeners' = changeListeners \ {l}
    /\ lastSetting' = [NoSettingCall EXCEPT !.op = "unregisterChangeListener",
                                            !.path = l.path]
    /\ UNCHANGED <<settings, settingsStorage>>
    /\ UNCHANGED <<worldVars, gameVars, legacyVars, edits, loopVars>>

\* setSetting(path, value); lastSetting records what was stored before, the
\* callbacks it invoked and how often it called saveSettings
SetSetting ==
  \E path \in SettingPaths, value \in SettingValues :
    /\ \E r \in {setSetting(settings, changeListeners, settingsStorage, path, value)} :
         /\ settings' = r.settings
         /\ settingsStorage' = r.storage
         /\ lastSetting' = [op |-> "setSetting", path |-> path, value |-> value,
                            ret |-> r.ret, calls |-> r.calls, saves |-> r.saves,
                            stored |-> storedAt(settings, path)]
    /\ UNCHANGED changeListeners
    /\ UNCHANGED <<worldVars, gameVars, legacyVars, edits, loopVars>>

SettingsNext ==
  \/ RegisterChangeListener
  \/ UnregisterChangeListener
  \/ SetSetting

SettingsSpec == Init /\ [][SettingsNext]_vars

(***************************************************************************)
(* Game specification: saving and loading a game around a running world.   *)
(***************************************************************************)
\* player and world parts of the save data handed to Game.loadGame
savedPlayer ==
  [position |-> <<chunkSizeX, 5, chunkSizeZ>>, rotation |-> <<0, 1, 0>>,
   health |-> 7, experience |-> 3, inventory |-> "saved"]
savedWorld ==
  [seed |-> 7, time |-> 30000, weather |-> "rain",
   blocks |-> {[x |-> 0, y |-> 0, z |-> 0, type |-> "stone"],
               [x |-> -1, y |-> 7, z |-> 0, type |-> "wood"]}]

\* the saveData arguments of Game.loadGame: none (read the stored save), a
\* save of another version with and without version field 0, a version 1
\* save without player, one with a player, and one whose blocks array
\* starts with null
SaveDatas ==
  {Null,
   [version |-> 2, player |-> savedPlayer, world |-> savedWorld],
   [version |-> 0, player |-> Null, world |-> savedWorld],
   [version |-> 1, player |-> Null, world |-> savedWorld],
   [version |-> 1, player |-> savedPlayer, world |-> savedWorld],
   [version |-> 1, player |-> Null, world |-> [savedWorld EXCEPT !.blocks = {Null}]]}

\* Game.saveGame(); localStorage.setItem may throw (ok = FALSE), and then
\* null is returned
SaveGame ==
  \E ok \in BOOLEAN :
    /\ steps < MaxGameSteps
    /\ storage' = IF ok THEN saveGame(player, sky, blockData, seed) ELSE storage
    /\ lastGame' = [op |-> "saveGame", hasData |-> TRUE, version |-> 1, ret |-> ok]
    /\ steps' = steps + 1
    /\ UNCHANGED <<chunks, blockData, collidableObjects, seed, saved, last, generated,
                   player, sky>>
    /\ UNCHANGED otherVars

\* Game.loadGame(saveData)
LoadGame ==
  \E saveData \in SaveDatas :
    /\ steps < MaxGameSteps
    /\ \E r \in {loadGame(player, sky,
                          [chunks |-> chunks, blockData |-> blockData,
                           collidableObjects |-> collidableObjects, seed |-> seed],
                          storage, saveData)},
          data \in {IF saveData = Null THEN storage ELSE saveData} :
       /\ player' = r.player
       /\ sky' = r.sky
       /\ chunks' = r.world.chunks
       /\ blockData' = r.world.blockData
       /\ collidableObjects' = r.world.collidableObjects
       /\ seed' = r.world.seed
       /\ lastGame' = [op |-> "loadGame", hasData |-> data # Null,
                       version |-> IF data # Null THEN data.version ELSE 0,
                       ret |-> r.ret]
    /\ steps' = steps + 1
    /\ UNCHANGED <<storage, saved, last, generated, otherVars>>

\* Player.takeDamage(amount, source)
TakeDamage ==
  \E amount \in {6, 30} :
    /\ steps < MaxGameSteps
    /\ player' = takeDamage(player, amount)
    /\ lastGame' = [op |-> "takeDamage", hasData |-> FALSE, version |-> 0, ret |-> TRUE]
    /\ steps' = steps + 1
    /\ UNCHANGED <<worldVarsButSteps, sky, storage, otherVars>>

\* Game.update: World.update(deltaTime, player.position)
GameLoadChunks ==
  /\ steps < MaxGameSteps
  /\ loadChunksStep
  /\ lastGame' = [op |-> "update", hasData |-> FALSE, version |-> 0, ret |-> TRUE]
  /\ UNCHANGED <<player, sky, storage, otherVars>>

GameNext ==
  \/ SaveGame
  \/ LoadGame
  \/ TakeDamage
  \/ GameLoadChunks

GameSpec == Init /\ [][GameNext]_vars

(***************************************************************************)
(* Collision and targeting queries of World, and the physics of Player.    *)
(* Lengths are in hundredths of a block, velocities in blocks per second   *)
(* and times in twentieths of a second, so that the arithmetic of the      *)
(* modelled frames is exact.                                               *)
(***************************************************************************)
Unit == 100
TicksPerSecond == 20

gravity == 20
playerHeight == 180
playerWidth == 60
eyeHeight == 162
maxReach == 5

Abs(n) == IF n < 0 THEN -n ELSE n
Max(a, b) == IF a >= b THEN a ELSE b
Min(a, b) == IF a <= b THEN a ELSE b

\* Math.floor and Math.ceil of a length, in blocks
floorBlocks(c) == c \div Unit
ceilBlocks(c) == -((-c) \div Unit)

getCollisionBox(bd, x, y, z) ==
  IF ~isSolid(bd, x, y, z)
  THEN Null
  ELSE [min |-> <<x * Unit, y * Unit, z * Unit>>,
        max |-> <<(x + 1) * Unit, (y + 1) * Unit, (z + 1) * Unit>>]

\* variant of checkBoxCollision in which boxes that only touch collide
checkBoxCollisionTouching(box1, box2) ==
  IF box1.max[1] < box2.min[1] \/ box1.min[1] > box2.max[1] THEN FALSE
  ELSE IF box1.max[2] < box2.min[2] \/ box1.min[2] > box2.max[2] THEN FALSE
  ELSE IF box1.max[3] < box2.min[3] \/ box1.min[3] > box2.max[3] THEN FALSE
  ELSE TRUE

checkBoxCollision(box1, box2) ==
  IF box1.max[1] <= box2.min[1] \/ box1.min[1] >= box2.max[1] THEN FALSE
  ELSE IF box1.max[2] <= box2.min[2] \/ box1.min[2] >= box2.max[2] THEN FALSE
  ELSE IF box1.max[3] <= box2.min[3] \/ box1.min[3] >= box2.max[3] THEN FALSE
  ELSE TRUE

\* the collisions array of checkBlockCollisions, in the order of its x, y, z
\* loops
checkBlockCollisions(bd, playerBox) ==
  LET minX == floorBlocks(playerBox.min[1] - Unit)
      minY == floorBlocks(playerBox.min[2] - Unit)
      minZ == floorBlocks(playerBox.min[3] - Unit)
      maxX == ceilBlocks(playerBox.max[1] + Unit)
      maxY == ceilBlocks(playerBox.max[2] + Unit)
      maxZ == ceilBlocks(playerBox.max[3] + Unit)
      ny == maxY - minY
      nz == maxZ - minZ
      cell(i) == LET x == minX + ((i - 1) \div (ny * nz))
                     y == minY + (((i - 1) \div nz) % ny)
                     z == minZ + ((i - 1) % nz)
                 IN [position |-> <<x, y, z>>,
                     blockType |-> getBlockAt(bd, x, y, z),
                     box |-> getCollisionBox(bd, x, y, z)]
      cells == [i \in 1..((maxX - minX) * ny * nz) |-> cell(i)]
  IN SelectSeq(cells, LAMBDA c :
       /\ isSolid(bd, c.position[1], c.position[2], c.position[3])
       /\ c.box # Null
       /\ checkBoxCollision(playerBox, c.box))

calculateResolutionVector(playerBox, blockBox) ==
  LET xOverlap == Min(playerBox.max[1] - blockBox.min[1], blockBox.max[1] - playerBox.min[1])
      yOverlap == Min(playerBox.max[2] - blockBox.min[2], blockBox.max[2] - playerBox.min[2])
      zOverlap == Min(playerBox.max[3] - blockBox.min[3], blockBox.max[3] - playerBox.min[3])
  IN IF xOverlap < yOverlap /\ xOverlap < zOverlap
     THEN <<IF playerBox.max[1] > blockBox.max[1] THEN xOverlap ELSE -xOverlap, 0, 0>>
     ELSE IF yOverlap < xOverlap /\ yOverlap < zOverlap
     THEN <<0, IF playerBox.max[2] > blockBox.max[2] THEN yOverlap ELSE -yOverlap, 0>>
     ELSE <<0, 0, IF playerBox.max[3] > blockBox.max[3] THEN zOverlap ELSE -zOverlap>>

\* resolvedPosition after the first n resolutions were added to it
RECURSIVE addResolutions(_, _, _)
addResolutions(resolvedPosition, resolutions, n) ==
  IF n = 0 THEN resolvedPosition
  ELSE LET p == addResolutions(resolvedPosition, resolutions, n - 1)
       IN <<p[1] + resolutions[n][1], p[2] + resolutions[n][2], p[3] + resolutions[n][3]>>

\* variant of resolveCollisionsOf that reports onGround for every collision
resolveCollisionsOfAnyGround(collisions, playerBox) ==
  LET centre == <<(playerBox.min[1] + playerBox.max[1]) \div 2,
                  playerBox.min[2],
                  (playerBox.min[3] + playerBox.max[3]) \div 2>>
      resolutions == [i \in DOMAIN collisions |->
                        calculateResolutionVector(playerBox, collisions[i].box)]
  IN IF Len(collisions) = 0
     THEN [position |-> centre, onGround |-> FALSE, colliding |-> FALSE]
     ELSE [position |-> addResolutions(centre, resolutions, Len(resolutions)),
           onGround |-> TRUE,
           colliding |-> TRUE]

\* resolveCollisions once checkBlockCollisions has returned collisions
resolveCollisionsOf(collisions, playerBox) ==
  LET centre == <<(playerBox.min[1] + playerBox.max[1]) \div 2,
                  playerBox.min[2],
                  (playerBox.min[3] + playerBox.max[3]) \div 2>>
      resolutions == [i \in DOMAIN collisions |->
                        calculateResolutionVector(playerBox, collisions[i].box)]
  IN IF Len(collisions) = 0
     THEN [position |-> centre, onGround |-> FALSE, colliding |-> FALSE]
     ELSE [position |-> addResolutions(centre, resolutions, Len(resolutions)),
           onGround |-> \E i \in DOMAIN resolutions :
                          /\ resolutions[i][2] > 0
                          /\ Abs(resolutions[i][2]) > Abs(resolutions[i][1])
                          /\ Abs(resolutions[i][2]) > Abs(resolutions[i][3]),
           colliding |-> TRUE]

resolveCollisions(bd, playerBox, velocity) ==
  resolveCollisionsOf(checkBlockCollisions(bd, playerBox), playerBox)

\* THREE.Raycaster against one unit cube mesh centred at the block position:
\* the intersection of a ray along an axis with the face it enters by (the
\* faces seen from behind are culled), Null if it misses the mesh
axisOf(direction) == CHOOSE a \in 1..3 : direction[a] # 0

intersectObject(object, origin, direction) ==
  LET a == axisOf(direction)
      centre == object.position[a] * Unit
      normal == <<-direction[1], -direction[2], -direction[3]>>
  IN IF \E b \in (1..3) \ {a} :
          2 * Abs(origin[b] - object.position[b] * Unit) >= Unit
     THEN Null
     ELSE IF direction[a] > 0 /\ 2 * (centre - origin[a]) >= Unit
     THEN [distance |-> centre - Unit \div 2 - origin[a], object |-> object,
           normal |-> normal]
     ELSE IF direction[a] < 0 /\ 2 * (origin[a] - centre) >= Unit
     THEN [distance |-> origin[a] - centre - Unit \div 2, object |-> object,
           normal |-> normal]
     ELSE Null

\* the intersections in ascending order of distance (Array.sort is stable:
\* equal distances keep the order of the objects)
RECURSIVE ascending(_, _)
ascending(hits, indices) ==
  IF indices = {} THEN <<>>
  ELSE LET first == CHOOSE i \in indices :
                      \A j \in indices :
                        \/ hits[i].distance < hits[j].distance
                        \/ hits[i].distance = hits[j].distance /\ i <= j
       IN <<hits[first]>> \o ascending(hits, indices \ {first})

intersectObjects(objects, origin, direction) ==
  LET hits == [i \in DOMAIN objects |-> intersectObject(objects[i], origin, direction)]
  IN ascending(hits, {i \in DOMAIN hits : hits[i] # Null})

\* variant of targetOf without the reach test
targetOfAnyDistance(intersects) ==
     IF Len(intersects) > 0
     THEN [position |-> intersects[1].object.position,
           adjacentPosition |-> <<intersects[1].object.position[1] + intersects[1].normal[1],
                                  intersects[1].object.position[2] + intersects[1].normal[2],
                                  intersects[1].object.position[3] + intersects[1].normal[3]>>,
           normal |-> intersects[1].normal,
           distance |-> intersects[1].distance,
           blockType |-> intersects[1].object.blockType]
     ELSE Null

\* getTargetBlock once the raycaster has returned intersects
targetOf(intersects) ==
     IF Len(intersects) > 0 /\ intersects[1].distance <= maxReach * Unit
     THEN [position |-> intersects[1].object.position,
           adjacentPosition |-> <<intersects[1].object.position[1] + intersects[1].normal[1],
                                  intersects[1].object.position[2] + intersects[1].normal[2],
                                  intersects[1].object.position[3] + intersects[1].normal[3]>>,
           normal |-> intersects[1].normal,
           distance |-> intersects[1].distance,
           blockType |-> intersects[1].object.blockType]
     ELSE Null

getTargetBlock(co, position, direction) ==
  targetOf(intersectObjects(co, position, direction))

\* Player.checkCollisions
playerBoxOf(pl) ==
  [min |-> <<pl.position[1] - playerWidth \div 2,
             pl.position[2],
             pl.position[3] - playerWidth \div 2>>,
   max |-> <<pl.position[1] + playerWidth \div 2,
             pl.position[2] + playerHeight,
             pl.position[3] + playerWidth \div 2>>]

\* checkCollisions once resolveCollisions has returned result
applyResult(pl, result) ==
  LET landed == ~pl.onGround /\ result.onGround
      vy == IF landed THEN 0 ELSE pl.velocity[2]
  IN [pl EXCEPT !.position = result.position,
                !.onGround = result.onGround,
                !.velocity = <<pl.velocity[1],
                               IF result.colliding /\ vy > 0 THEN 0 ELSE vy,
                               pl.velocity[3]>>]

checkCollisions(pl, bd) ==
  applyResult(pl, resolveCollisions(bd, playerBoxOf(pl), pl.velocity))

\* Player.update(deltaTime) up to "Move player" and the test against y < 0,
\* with no key pressed and flying off; deltaTime in twentieths of a second
movePlayer(pl, deltaTime) ==
  LET dt == Min(deltaTime, TicksPerSecond \div 10)
      friction == IF pl.onGround THEN 85 ELSE 95
      vx == (pl.velocity[1] * friction) \div 100
      vz == (pl.velocity[3] * friction) \div 100
      vy == pl.velocity[2] - (gravity * dt) \div TicksPerSecond
      moved == <<pl.position[1] + (vx * dt * Unit) \div TicksPerSecond,
                 pl.position[2] + (vy * dt * Unit) \div TicksPerSecond,
                 pl.position[3] + (vz * dt * Unit) \div TicksPerSecond>>
  IN IF moved[2] < 0
     THEN [pl EXCEPT !.position = <<moved[1], 0, moved[3]>>,
                     !.velocity = <<vx, 0, vz>>,
                     !.onGround = TRUE]
     ELSE [pl EXCEPT !.position = moved,
                     !.velocity = <<vx, vy, vz>>]

\* camera.position after updateCamera
cameraPosition(pl) ==
  <<pl.position[1], pl.position[2] + eyeHeight, pl.position[3]>>

\* Player.update(deltaTime), the camera looking along direction
updateTargetBlock(pl, co, direction) ==
  [pl EXCEPT !.targetBlock = getTargetBlock(co, cameraPosition(pl), direction)]

playerUpdate(pl, bd, co, deltaTime, direction) ==
  IF deltaTime = 0 THEN pl
  ELSE updateTargetBlock(checkCollisions(movePlayer(pl, deltaTime), bd), co, direction)

(***************************************************************************)
(* Specification of a player falling onto a flat floor.                    *)
(***************************************************************************)
MaxFrames == 10

\* the surface height of the flat terrain and the top of its surface blocks
FloorHeight == terrainHeightMin
FloorTop == (FloorHeight + 1) * Unit

\* the chunks generateChunk makes around the origin where the height map is
\* FloorHeight everywhere and no tree is generated
flatChunks ==
  LET keys == squareKeys(<<0, 0>>)
      n == chunkSizeX * chunkSizeZ
  IN [i \in DOMAIN keys |->
        [key |-> keys[i],
         blocks |-> concat([c \in 1..n |->
                              columnBlocks(keys[i][1] * chunkSizeX + ((c - 1) \div chunkSizeZ),
                                           keys[i][2] * chunkSizeZ + ((c - 1) % chunkSizeZ),
                                           FloorHeight)],
                           1, n)]]

\* the player's feet: over one block and over the edge of two or four
StartPositions ==
  {<<x, FloorTop + dy, z>> : x \in {40, 100}, dy \in {15, 500}, z \in {40, 100}}

\* the Player fields update() reads and writes
fallingPlayer(position) ==
  [position |-> position, velocity |-> <<0, 0, 0>>, onGround |-> FALSE,
   targetBlock |-> Null]

\* deltaTime of a frame (the third is capped to 0.1 s)
DeltaTimes == {1, 3}

\* where the camera looks: down and along x
Directions == {<<0, -1, 0>>, <<1, 0, 0>>}

PhysicsInit ==
  /\ chunks = flatChunks
  /\ blockData = written(updateCollidableObjects(flatChunks))
  /\ collidableObjects = updateCollidableObjects(flatChunks)
  /\ seed \in Seeds
  /\ saved = NoSave
  /\ last = NoCall
  /\ generated = {}
  /\ steps = 0
  /\ player \in {fallingPlayer(p) : p \in StartPositions}
  /\ sky = newSky
  /\ storage = Null
  /\ lastGame = NoGameCall
  /\ otherIdle

\* variant of Update whose targeting takes the first mesh off collidableObjects
UpdateConsuming ==
  \E deltaTime \in DeltaTimes, direction \in Directions :
    /\ steps < MaxFrames
    /\ player' = playerUpdate(player, blockData, collidableObjects, deltaTime, direction)
    /\ collidableObjects' = Tail(collidableObjects)
    /\ last' = [op |-> "update"]
    /\ steps' = steps + 1
    /\ UNCHANGED <<chunks, blockData, seed, saved, generated, sky, storage, lastGame>>
    /\ UNCHANGED otherVars

\* Player.update(deltaTime); last records the calls it made to World and
\* whether the player has stood on the floor in this or an earlier frame
Update ==
  \E deltaTime \in DeltaTimes, direction \in Directions :
    /\ steps < MaxFrames
    /\ \E moved \in {movePlayer(player, deltaTime)} :
       \E r \in {playerUpdate(player, blockData, collidableObjects, deltaTime, direction)} :
         /\ player' = r
         /\ last' = [op |-> "update",
                     playerBox |-> playerBoxOf(moved),
                     collisions |-> checkBlockCollisions(blockData, playerBoxOf(moved)),
                     origin |-> cameraPosition(r),
                     direction |-> direction,
                     landed |-> \/ last.op = "update" /\ last.landed
                                \/ r.onGround /\ r.position[2] = FloorTop]
    /\ steps' = steps + 1
    /\ UNCHANGED <<chunks, blockData, collidableObjects, seed, saved, generated,
                   sky, storage, lastGame>>
    /\ UNCHANGED otherVars

PhysicsNext == Update

PhysicsSpec == PhysicsInit /\ [][PhysicsNext]_vars

(***************************************************************************)
(* Specification of a player falling onto a flat floor and placing blocks  *)
(* (Player.placeBlock, js/entities/Player.js lines 750-799).               *)
(***************************************************************************)
MaxPlaceFrames == 7

\* Player.getSelectedBlockType()
getSelectedBlockType == "stone"

\* blockBox of Player.placeBlock; adjacentPosition is in blocks
blockBoxOf(adjacentPosition) ==
  [min |-> <<MathFloor(2 * adjacentPosition[1]) * Unit,
             MathFloor(2 * adjacentPosition[2]) * Unit,
             MathFloor(2 * adjacentPosition[3]) * Unit>>,
   max |-> <<(MathFloor(2 * adjacentPosition[1]) + 1) * Unit,
             (MathFloor(2 * adjacentPosition[2]) + 1) * Unit,
             (MathFloor(2 * adjacentPosition[3]) + 1) * Unit>>]

\* variant of Player.placeBlock without the test against the player's box
playerPlaceBlockUnchecked(pl, chs, bd, co) ==
  LET unchanged == [chunks |-> chs, blockData |-> bd, collidableObjects |-> co,
                    ret |-> FALSE, called |-> FALSE]
  IN IF pl.targetBlock = Null THEN unchanged
     ELSE LET adjacentPosition == pl.targetBlock.adjacentPosition
              r == placeBlock(chs, bd, co, getSelectedBlockType,
                              2 * MathFloor(2 * adjacentPosition[1]),
                              2 * MathFloor(2 * adjacentPosition[2]),
                              2 * MathFloor(2 * adjacentPosition[3]))
          IN [chunks |-> r.chunks, blockData |-> r.blockData,
              collidableObjects |-> r.collidableObjects, ret |-> r.ret,
              called |-> TRUE]

\* Player.placeBlock(); called tells whether World.placeBlock was called
playerPlaceBlock(pl, chs, bd, co) ==
  LET unchanged == [chunks |-> chs, blockData |-> bd, collidableObjects |-> co,
                    ret |-> FALSE, called |-> FALSE]
  IN IF pl.targetBlock = Null THEN unchanged
     ELSE LET adjacentPosition == pl.targetBlock.adjacentPosition
              r == placeBlock(chs, bd, co, getSelectedBlockType,
                              2 * MathFloor(2 * adjacentPosition[1]),
                              2 * MathFloor(2 * adjacentPosition[2]),
                              2 * MathFloor(2 * adjacentPosition[3]))
          IN IF checkBoxCollision(playerBoxOf(pl), blockBoxOf(adjacentPosition))
             THEN unchanged
             ELSE [chunks |-> r.chunks, blockData |-> r.blockData,
                   collidableObjects |-> r.collidableObjects, ret |-> r.ret,
                   called |-> TRUE]

\* Player.update(deltaTime) in a frame of the placing player
PlaceUpdate ==
  /\ steps < MaxPlaceFrames
  /\ Update

\* Player.placeBlock() on a right click
PlayerPlaceBlock ==
  /\ steps < MaxPlaceFrames
  /\ \E r \in {playerPlaceBlock(player, chunks, blockData, collidableObjects)} :
       /\ chunks' = r.chunks
       /\ blockData' = r.blockData
       /\ collidableObjects' = r.collidableObjects
       /\ last' = [op |-> "playerPlaceBlock", called |-> r.called, ret |-> r.ret]
  /\ steps' = steps + 1
  /\ UNCHANGED <<seed, saved, generated, gameVars, otherVars>>

PlaceNext ==
  \/ PlaceUpdate
  \/ PlayerPlaceBlock

PlaceSpec == PhysicsInit /\ [][PlaceNext]_vars

(***************************************************************************)
(* Specification of generateHeightMap with the terrain heights of the      *)
(* source.                                                                 *)
(***************************************************************************)
MaxHeightMaps == 1

worldChunkSizeY == 256
worldTerrainHeightMin == 64
worldTerrainHeightMax == 128

\* combinedNoise in millionths at columns where it is near its least
\* (0.0402) and its greatest (0.9598) values, from the source's formula
FarNoise ==
  (<<143, -314>> :> 40199) @@ (<<-143, 314>> :> 959800) @@
  (<<157, 0>> :> 849999) @@ (<<-157, 0>> :> 150000)

HeightColumns == (DOMAIN FarNoise) \cup (((-12)..12) \X ((-8)..8))

noiseAt(column) ==
  IF column \in DOMAIN FarNoise THEN FarNoise[column]
  ELSE combinedNoise(column[1], column[2])

\* Math.floor(Math.random() * 3) - 1
Jitters == {-1, 0, 1}

\* generateHeightMap, one column of the map it returns
GenerateHeightMap ==
  \E column \in HeightColumns, jitter \in Jitters :
    /\ steps < MaxHeightMaps
    /\ last' = [op |-> "generateHeightMap", column |-> column, jitter |-> jitter,
                height |-> columnHeight(worldTerrainHeightMin, worldTerrainHeightMax,
                                        noiseAt(column), jitter)]
    /\ steps' = steps + 1
    /\ UNCHANGED <<chunks, blockData, collidableObjects, seed, saved, generated>>
    /\ UNCHANGED <<gameVars, otherVars>>

\* the columns whose y loop is followed: those of FarNoise and the origin
ColumnSamples == (DOMAIN FarNoise) \cup {<<0, 0>>}

\* generateChunk, the y loop of one column with the chunk height of the
\* source
GenerateColumn ==
  \E column \in ColumnSamples, jitter \in Jitters :
    /\ steps < MaxHeightMaps
    /\ \E h \in {columnHeight(worldTerrainHeightMin, worldTerrainHeightMax,
                               noiseAt(column), jitter)} :
         last' = [op |-> "generateColumn", column |-> column, jitter |-> jitter,
                  height |-> h,
                  blocks |-> columnBlocksOf(column[1], column[2], h, worldChunkSizeY)]
    /\ steps' = steps + 1
    /\ UNCHANGED <<chunks, blockData, collidableObjects, seed, saved, generated>>
    /\ UNCHANGED <<gameVars, otherVars>>

HeightNext ==
  \/ GenerateHeightMap
  \/ GenerateColumn

HeightSpec == Init /\ [][HeightNext]_vars

(***************************************************************************)
(* The first class World: generateWorld, checkFullCollision and            *)
(* resolveBlockCollision (js/world/World.js lines 26-217).  Block          *)
(* positions are in blocks, the vectors of the player in hundredths of a   *)
(* block; resolveBlockCollision takes the velocity as the displacement of  *)
(* one frame.                                                              *)
(***************************************************************************)
worldSize == 1
clearRadius == 0
blockHalfSize == 50
playerRadius == 30

\* generateWorld(): ground at y = -1, dirt at -2 and -3, stone at -4, and an
\* obstacle at y = 0 on the columns the random draw picked outside the centre
generateWorld(obstacles) ==
  {<<x, y, z>> : x \in (-worldSize)..worldSize, y \in (-4)..(-1),
                 z \in (-worldSize)..worldSize}
  \cup {<<c[1], 0, c[2]>> :
          c \in {o \in obstacles : Abs(o[1]) > clearRadius /\ Abs(o[2]) > clearRadius}}

\* Vector3.distanceTo(position) < 2, squared
near(b, position) ==
  (position[1] - b[1] * Unit) * (position[1] - b[1] * Unit)
  + (position[2] - b[2] * Unit) * (position[2] - b[2] * Unit)
  + (position[3] - b[3] * Unit) * (position[3] - b[3] * Unit)
  < (2 * Unit) * (2 * Unit)

\* checkFullCollision(position, radius): the blocks of collidingBlocks
checkFullCollision(blocks, position, radius) ==
  {b \in blocks :
     /\ near(b, position)
     /\ Abs(position[1] - b[1] * Unit) < radius + blockHalfSize
     /\ Abs(position[2] - b[2] * Unit) < radius + blockHalfSize
     /\ Abs(position[3] - b[3] * Unit) < radius + blockHalfSize}

\* the first phase of resolveBlockCollision: the velocity after the
\* horizontal test at body and at foot level
horizontalPhase(blocks, position, velocity, radius) ==
  LET testPosition == <<position[1] + velocity[1], position[2], position[3] + velocity[3]>>
      footPosition == <<testPosition[1], testPosition[2] - radius, testPosition[3]>>
  IN IF velocity[1] = 0 /\ velocity[3] = 0 THEN velocity
     ELSE IF \/ checkFullCollision(blocks, testPosition, radius) # {}
             \/ checkFullCollision(blocks, footPosition, radius) # {}
          THEN <<0, velocity[2], 0>>
          ELSE velocity

\* the y of the highest block of a non-empty collision list
highestBlockY(collisions) ==
  CHOOSE y \in {b[2] : b \in collisions} : \A b \in collisions : b[2] <= y

\* variant of resolveBlockCollision that always puts a falling player on top
\* of the highest colliding block
resolveBlockCollisionSnapping(blocks, position, velocity, radius) ==
  LET horizontal == horizontalPhase(blocks, position, velocity, radius)
      collisions ==
        checkFullCollision(blocks, <<position[1], position[2] + velocity[2], position[3]>>,
                           radius)
      newY == highestBlockY(collisions) * Unit + blockHalfSize + radius
  IN IF velocity[2] = 0 \/ collisions = {}
     THEN [position |-> position, velocity |-> horizontal]
     ELSE IF velocity[2] < 0
          THEN [position |-> <<position[1], newY, position[3]>>,
                velocity |-> <<horizontal[1], 0, horizontal[3]>>]
          ELSE [position |-> position, velocity |-> <<horizontal[1], 0, horizontal[3]>>]

\* resolveBlockCollision(position, velocity, playerRadius): position is
\* changed in place, the changed velocity is returned
resolveBlockCollision(blocks, position, velocity, radius) ==
  LET horizontal == horizontalPhase(blocks, position, velocity, radius)
      collisions ==
        checkFullCollision(blocks, <<position[1], position[2] + velocity[2], position[3]>>,
                           radius)
      newY == highestBlockY(collisions) * Unit + blockHalfSize + radius
  IN IF velocity[2] = 0 \/ collisions = {}
     THEN [position |-> position, velocity |-> horizontal]
     ELSE IF velocity[2] < 0
          THEN [position |-> IF newY > position[2]
                             THEN <<position[1], newY, position[3]>>
                             ELSE position,
                velocity |-> <<horizontal[1], 0, horizontal[3]>>]
          ELSE [position |-> position, velocity |-> <<horizontal[1], 0, horizontal[3]>>]

\* the obstacle columns Math.random() < 0.05 picks
ObstacleDraws == {{}, {<<worldSize, worldSize>>}}

\* where the player is when resolveBlockCollision is called: next to the
\* corner column, from below the world to well above the ground
LegacyPositions ==
  {<<x, y, z>> : x \in {(worldSize - 1) * Unit, (worldSize - 1) * Unit + 30},
                 y \in {-500, -130, -30, -15, 0, 60, 130},
                 z \in {(worldSize - 1) * Unit + 30, worldSize * Unit}}

\* the displacement of one frame
LegacyVelocities ==
  {<<0, 0, 0>>, <<25, 0, 0>>, <<0, -5, 0>>, <<0, -150, 0>>, <<0, 25, 0>>,
   <<25, -5, 25>>, <<0, 25, 25>>, <<-25, -150, 0>>, <<25, 25, 0>>}

LegacyInit ==
  /\ chunks = <<>>
  /\ blockData = EmptyMap
  /\ collidableObjects = <<>>
  /\ seed \in Seeds
  /\ saved = NoSave
  /\ last = NoCall
  /\ generated = {}
  /\ steps = 0
  /\ GameIdle
  /\ legacyBlocks \in {generateWorld(obstacles) : obstacles \in ObstacleDraws}
  /\ legacyPlayer = NoLegacyPlayer
  /\ edits = NoEdits
  /\ loopIdle
  /\ settingsIdle

\* World.resolveBlockCollision(position, velocity, playerRadius) of the first
\* class World; last records the vectors it was handed
ResolveBlockCollision ==
  \E position \in LegacyPositions, velocity \in LegacyVelocities :
    /\ legacyPlayer' = resolveBlockCollision(legacyBlocks, position, velocity, playerRadius)
    /\ last' = [op |-> "resolveBlockCollision", position |-> position,
                velocity |-> velocity]
    /\ UNCHANGED <<chunks, blockData, collidableObjects, seed, saved, generated, steps>>
    /\ UNCHANGED <<gameVars, legacyBlocks, edits, loopVars, settingsVars>>

LegacyNext == ResolveBlockCollision

LegacySpec == LegacyInit /\ [][LegacyNext]_vars

(***************************************************************************)
(* Properties.                                                             *)
(***************************************************************************)
\* the chunk coordinates within Chebyshev distance renderDistance of the
\* chunk containing world column (x, z)
ChebyshevSquare(x, z) ==
  LET cx0 == chunkKeyOf(x, z)[1]
      cz0 == chunkKeyOf(x, z)[2]
      span == renderDistance + 2
  IN {k \in ((cx0 - span)..(cx0 + span)) \X ((cz0 - span)..(cz0 + span)) :
        Max(Abs(k[1] - cx0), Abs(k[2] - cz0)) <= renderDistance}

\* the chunk holding position p is resident
resident(chs, p) == chunksHas(chs, chunkKeyOf(p[1], p[3]))

\* the positions of the chunk with key k
chunkPositions(k) ==
  {<<k[1] * chunkSizeX + x, y, k[2] * chunkSizeZ + z>> :
     x \in 0..(chunkSizeX - 1), y \in 0..(chunkSizeY - 1), z \in 0..(chunkSizeZ - 1)}

\* the positions removeBlock and placeBlock are called with
TargetPositions ==
  {<<MathFloor(t[1]), MathFloor(t[2]), MathFloor(t[3])>> : t \in Targets}

kindAt(bd, p) == getBlockAt(bd, p[1], p[2], p[3])
solidAt(bd, p) == isSolid(bd, p[1], p[2], p[3])

\* the kinds of the registry other than air
Kinds == (DOMAIN blockTypes) \ {"air"}

\* C1: when loadChunksAroundPosition(p) has returned, the keys of World.chunks
\* are exactly the chunk coordinates within Chebyshev distance renderDistance
\* of p's chunk (each once), whatever was resident before.
C1_ResidentSquare ==
  last.op = "loadChunksAroundPosition" =>
    /\ chunkKeys(chunks) = ChebyshevSquare(last.pos[1], last.pos[3])
    /\ Len(chunks) = Cardinality(chunkKeys(chunks))

\* a load that kept some resident chunks, generated others and evicted the rest
C1_Witness ==
  /\ last.op = "loadChunksAroundPosition"
  /\ last.count > 0
  /\ last.count < Cardinality(ChebyshevSquare(last.pos[1], last.pos[3]))
  /\ \E g \in generated : g.key \notin chunkKeys(chunks)
  /\ chunkKeys(chunks) = ChebyshevSquare(last.pos[1], last.pos[3])

\* C2: in every reachable state, every position with an entry in blockData
\* lies in a chunk that is resident in World.chunks (so an evicted chunk
\* leaves no entry behind).
C2_IndexInsideResidentChunks ==
  \A p \in DOMAIN blockData : resident(chunks, p)

\* C3: getBlockAt returns "air" at every position whose chunk is not
\* resident, and isSolid is false wherever getBlockAt returns "air".
C3_AirOutsideResidentChunks ==
  \A p \in DOMAIN blockData \cup TargetPositions :
    /\ ~resident(chunks, p) => kindAt(blockData, p) = "air"
    /\ kindAt(blockData, p) = "air" => ~solidAt(blockData, p)

\* C4: a placeBlock whose target is already non-air, or whose chunk is not
\* resident, returns false and leaves blockData, every chunk's block list
\* and collidableObjects as they were.
C4_PlaceBlockRejects ==
  [][(/\ last'.op = "placeBlock"
      /\ \/ kindAt(blockData, last'.pos) # "air"
         \/ ~resident(chunks, last'.pos))
     => (/\ last'.ret = FALSE
         /\ blockData' = blockData
         /\ chunks' = chunks
         /\ collidableObjects' = collidableObjects)]_vars

\* a registered kind was refused at an air position of a chunk that was
\* generated and is no longer resident
C4_Witness ==
  /\ last.op = "placeBlock"
  /\ last.blockType \in Kinds
  /\ last.ret = FALSE
  /\ kindAt(blockData, last.pos) = "air"
  /\ ~resident(chunks, last.pos)
  /\ \E g \in generated : g.key = chunkKeyOf(last.pos[1], last.pos[3])

\* C5: removeBlock returns false exactly when getBlockAt is "air" at the
\* position; wherever getBlockAt is not "air" it returns true and deletes the
\* position's blockData entry.
C5_RemoveBlockExactlyNonAir ==
  [][last'.op = "removeBlock"
     => (/\ last'.ret = FALSE <=> kindAt(blockData, last'.pos) = "air"
         /\ kindAt(blockData, last'.pos) # "air"
              => last'.ret = TRUE /\ last'.pos \notin DOMAIN blockData')]_vars

\* C6: placeBlock(k) of a registered non-air kind k at an air position of a
\* resident chunk returns true and getBlockAt then returns k; a placeBlock
\* that directly follows at the same position returns false and getBlockAt
\* still returns k.
C6_PlaceThenGet ==
  [][/\ (/\ last'.op = "placeBlock"
         /\ last'.blockType \in Kinds
         /\ kindAt(blockData, last'.pos) = "air"
         /\ resident(chunks, last'.pos))
        => (/\ last'.ret = TRUE
            /\ kindAt(blockData', last'.pos) = last'.blockType)
     /\ (/\ last.op = "placeBlock"
         /\ last.ret = TRUE
         /\ last'.op = "placeBlock"
         /\ last'.pos = last.pos)
        => (/\ last'.ret = FALSE
            /\ kindAt(blockData', last'.pos) = last.blockType)]_vars

\* leaves were refused where the call before had placed stone
C6_Witness ==
  /\ steps = 3
  /\ last.op = "placeBlock"
  /\ last.blockType = "leaves"
  /\ last.ret = FALSE
  /\ last.pos = <<-1, 7, 0>>
  /\ kindAt(blockData, last.pos) = "stone"
  /\ resident(chunks, last.pos)

\* C7: after a removeBlock that returned true, getBlockAt returns "air" and
\* isSolid is false at the position; a removeBlock that directly follows at
\* the same position returns false and changes nothing.
C7_RemoveThenGet ==
  [][/\ (last'.op = "removeBlock" /\ last'.ret = TRUE)
        => (/\ kindAt(blockData', last'.pos) = "air"
            /\ ~solidAt(blockData', last'.pos))
     /\ (/\ last.op = "removeBlock"
         /\ last.ret = TRUE
         /\ last'.op = "removeBlock"
         /\ last'.pos = last.pos)
        => (/\ last'.ret = FALSE
            /\ blockData' = blockData
            /\ chunks' = chunks
            /\ collidableObjects' = collidableObjects)]_vars

\* a generated block was removed and the removal repeated
C7_Witness ==
  /\ steps = 3
  /\ last.op = "removeBlock"
  /\ last.ret = FALSE
  /\ last.pos = <<0, 3, 0>>
  /\ resident(chunks, last.pos)
  /\ kindAt(blockData, last.pos) = "air"
  /\ kindAt(blockData, <<0, 2, 0>>) # "air"

\* C8: two generateChunk calls for the same chunk coordinate write the same
\* kind at every position of the chunk.
C8_GenerationDeterministic ==
  \A g1, g2 \in generated :
    g1.key = g2.key =>
      \A p \in chunkPositions(g1.key) : kindAt(g1.written, p) = kindAt(g2.written, p)

\* C9: a loadChunksAroundPosition that directly follows one with the same
\* position generates no chunk, returns an empty list and leaves World.chunks
\* and blockData as the first call left them.
C9_LoadTwice ==
  [][(/\ last.op = "loadChunksAroundPosition"
      /\ last'.op = "loadChunksAroundPosition"
      /\ last'.pos = last.pos)
     => (/\ last'.count = 0
         /\ generated' = generated
         /\ chunks' = chunks
         /\ blockData' = blockData)]_vars

\* the same position was loaded twice in a row
C9_Witness ==
  /\ steps = 2
  /\ last.op = "loadChunksAroundPosition"
  /\ last.count = 0
  /\ chunks # <<>>

\* C10: load(save()): the seed is the saved seed and getBlockAt returns at
\* every position what it returned before the save.
C10_SaveLoadRoundTrip ==
  [][(last.op = "save" /\ last'.op = "load")
     => (/\ seed' = saved.seed
         /\ seed' = seed
         /\ \A p \in DOMAIN blockData \cup DOMAIN blockData' :
              kindAt(blockData', p) = kindAt(blockData, p))]_vars

\* a world with generated terrain and a placed block was saved and loaded
C10_Witness ==
  /\ steps = 4
  /\ last.op = "load"
  /\ kindAt(blockData, <<-1, 7, 0>>) = "stone"
  /\ kindAt(blockData, <<0, 3, 0>>) = "grass"
  /\ kindAt(blockData, <<0, 0, 0>>) = "stone"

worldUnchanged ==
  /\ seed' = seed
  /\ chunks' = chunks
  /\ blockData' = blockData
  /\ collidableObjects' = collidableObjects

\* C11: a Game.loadGame whose save data has a version other than 1 returns
\* false and leaves the player, the world's seed, chunks and block index and
\* the sky's time and weather as they were.
C11_WrongVersionRejected ==
  [][(/\ lastGame'.op = "loadGame"
      /\ lastGame'.hasData
      /\ lastGame'.version # 1)
     => (/\ lastGame'.ret = FALSE
         /\ player' = player
         /\ sky' = sky
         /\ worldUnchanged)]_vars

\* a version 2 save was refused by a game with loaded chunks and a damaged
\* player
C11_Witness ==
  /\ lastGame.op = "loadGame"
  /\ lastGame.hasData
  /\ lastGame.version = 2
  /\ lastGame.ret = FALSE
  /\ chunks # <<>>
  /\ player.health < newPlayer.health
  /\ player.position = newPlayer.position

\* C12: whenever Game.loadGame returns false, the player and the world are as
\* they were before the call.
C12_FailedLoadAppliesNothing ==
  [][(lastGame'.op = "loadGame" /\ lastGame'.ret = FALSE)
     => (player' = player /\ sky' = sky /\ worldUnchanged)]_vars

\* names handed to the registry, defined and not
Names == (DOMAIN blockTypes) \cup {"bogus", "", "Air", "Stone"}

\* C13: getBlockType answers every name that was not defined with the "air"
\* entry, so a position holding an unknown kind is not solid and createBlock
\* returns null for it, and a placeBlock with an unknown kind returns false
\* and leaves blockData, the chunks and collidableObjects as they were.
C13_RegistryFailsClosed ==
  [][/\ \A name \in Names \ DOMAIN blockTypes :
          /\ getBlockType(name) = blockTypes["air"]
          /\ ~isSolid(set(blockData', <<0, 0, 0>>, name), 0, 0, 0)
          /\ createBlock(name, 0, 0, 0) = NullBlock
     /\ \A name \in DOMAIN blockTypes : getBlockType(name) = blockTypes[name]
     /\ (last'.op = "placeBlock" /\ last'.blockType \notin DOMAIN blockTypes)
        => (/\ last'.ret = FALSE
            /\ blockData' = blockData
            /\ chunks' = chunks
            /\ collidableObjects' = collidableObjects)]_vars

\* an unknown kind was refused at an air position of a resident chunk
C13_Witness ==
  /\ last.op = "placeBlock"
  /\ last.blockType = "bogus"
  /\ last.ret = FALSE
  /\ kindAt(blockData, last.pos) = "air"
  /\ resident(chunks, last.pos)

\* the chunks a step added to World.chunks
newChunks ==
  {chunks'[i] : i \in {j \in DOMAIN chunks' : ~chunksHas(chunks, chunks'[j].key)}}

StructureKinds == {"wood", "leaves"}

\* C14: every mesh generateStructure stamps for a tree goes to a position
\* that held no block before it (neither in blockData before the call nor
\* written earlier by the same generateChunk), so a generated chunk holds no
\* two meshes at one position and no terrain block was replaced by wood or
\* leaves.
C14_StampsOnlyAir ==
  [][last'.op = "loadChunksAroundPosition"
     => \A c \in newChunks :
          \A i \in DOMAIN c.blocks :
            /\ c.blocks[i].blockType \in StructureKinds
               => /\ kindAt(blockData, c.blocks[i].position) = "air"
                  /\ \A j \in 1..(i - 1) :
                       c.blocks[j].position # c.blocks[i].position
            /\ \A j \in DOMAIN c.blocks :
                 j # i => c.blocks[j].position # c.blocks[i].position]_vars

\* C15: every block generateChunk(chunkX, chunkZ) creates or writes to
\* blockData has its x within chunkX * chunkSize.x .. chunkX * chunkSize.x +
\* chunkSize.x - 1 and its z within the same range of chunkZ: a tree near
\* the edge is truncated at the chunk's boundary.
C15_GenerationInsideChunk ==
  [][last'.op = "loadChunksAroundPosition"
     => \A c \in newChunks :
          \A i \in DOMAIN c.blocks :
            LET p == c.blocks[i].position
            IN /\ p[1] \in (c.key[1] * chunkSizeX)..(c.key[1] * chunkSizeX + chunkSizeX - 1)
               /\ p[3] \in (c.key[2] * chunkSizeZ)..(c.key[2] * chunkSizeZ + chunkSizeZ - 1)]_vars

\* C16: a player falling onto a flat solid floor comes to rest: once an
\* update has left its y exactly at the top of the floor with onGround true,
\* velocity.y is 0 after that and every later update and y never goes below
\* the top of the floor.
C16_ComesToRest ==
  (last.op = "update" /\ last.landed)
  => (player.velocity[2] = 0 /\ player.position[2] >= FloorTop)

\* the intersections of the ray of the last update with the meshes of
\* collidableObjects
rayHits ==
  {intersectObject(collidableObjects[i], last.origin, last.direction) :
     i \in DOMAIN collidableObjects} \ {Null}

\* C17: getTargetBlock returns null whenever nothing is hit or the nearest
\* hit is farther than maxReach; a result that is not null has distance <=
\* maxReach and is the nearest hit.
C17_TargetWithinReach ==
  last.op = "update"
  => /\ (\A h \in rayHits : h.distance > maxReach * Unit)
        => player.targetBlock = Null
     /\ player.targetBlock # Null
        => /\ player.targetBlock.distance <= maxReach * Unit
           /\ \E h \in rayHits :
                /\ h.object.position = player.targetBlock.position
                /\ h.distance = player.targetBlock.distance
           /\ \A h \in rayHits : player.targetBlock.distance <= h.distance

\* the ray hit several meshes and the nearest one is the target
C17_Witness ==
  /\ last.op = "update"
  /\ Cardinality(rayHits) >= 2
  /\ player.targetBlock # Null
  /\ player.targetBlock.distance > 0

overlaps(playerBox, blockBox) ==
  [a \in 1..3 |-> Min(playerBox.max[a] - blockBox.min[a],
                      blockBox.max[a] - playerBox.min[a])]

\* C20: calculateResolutionVector returns a vector with exactly one non-zero
\* component, along an axis whose overlap is the minimum of the three; among
\* axes that tie for the minimum it is the first in the order x, y, z.
C20_ResolutionAlongFirstMinimalAxis ==
  last.op = "update"
  => \A i \in DOMAIN last.collisions :
       LET o == overlaps(last.playerBox, last.collisions[i].box)
           r == calculateResolutionVector(last.playerBox, last.collisions[i].box)
           axis == CHOOSE a \in 1..3 :
                     /\ \A b \in 1..3 : o[a] <= o[b]
                     /\ \A b \in 1..(a - 1) : o[b] # o[a]
       IN /\ r[axis] # 0
          /\ \A b \in (1..3) \ {axis} : r[b] = 0

\* C19: the height generateHeightMap produces for a column is an integer
\* within terrainHeightMin..terrainHeightMax, that is 64..128.
C19_HeightInRange ==
  last.op = "generateHeightMap"
  => last.height \in worldTerrainHeightMin..worldTerrainHeightMax

\* the column of least noise drew the variation -1
C19_Witness ==
  /\ last.op = "generateHeightMap"
  /\ last.jitter = -1
  /\ \A column \in HeightColumns : noiseAt(last.column) <= noiseAt(column)

\* the solid blocks of the whole index whose unit cube overlaps box on all
\* three axes
overlapping(bd, box) ==
  {p \in DOMAIN bd :
     /\ getBlockType(bd[p]).solid
     /\ \A a \in 1..3 : box.min[a] < (p[a] + 1) * Unit /\ p[a] * Unit < box.max[a]}

\* C21: where no solid block overlaps the player box resolveCollisions
\* returns the box's x/z centre and min y with colliding and onGround false;
\* it returns colliding true exactly when a solid block's unit cube strictly
\* overlaps the box on all three axes.
C21_PassThrough ==
  last.op = "update"
  => \E r \in {resolveCollisions(blockData, last.playerBox, player.velocity)} :
       /\ overlapping(blockData, last.playerBox) = {}
          => /\ 2 * r.position[1] = last.playerBox.min[1] + last.playerBox.max[1]
             /\ r.position[2] = last.playerBox.min[2]
             /\ 2 * r.position[3] = last.playerBox.min[3] + last.playerBox.max[3]
             /\ ~r.colliding
             /\ ~r.onGround
       /\ r.colliding <=> overlapping(blockData, last.playerBox) # {}

\* the player box rests on the floor without entering it
C21_Witness ==
  /\ last.op = "update"
  /\ last.playerBox.min[2] = FloorTop
  /\ last.collisions = <<>>
  /\ ~player.onGround

\* the collision box of the block at p
cubeOf(p) ==
  [min |-> <<p[1] * Unit, p[2] * Unit, p[3] * Unit>>,
   max |-> <<(p[1] + 1) * Unit, (p[2] + 1) * Unit, (p[3] + 1) * Unit>>]

\* the resolution pushes the player up more than it pushes it sideways
pushesUp(resolution) ==
  /\ resolution[2] > 0
  /\ Abs(resolution[2]) > Abs(resolution[1])
  /\ Abs(resolution[2]) > Abs(resolution[3])

\* C22: resolveCollisions reports onGround true if and only if the
\* resolution vector of at least one colliding block has a positive y
\* component larger in magnitude than its x and z components; a player
\* colliding only with blocks whose bottom is not below its feet (blocks
\* beside or above it) gets onGround false.
C22_OnGroundIffPushedUp ==
  last.op = "update"
  => \E r \in {resolveCollisions(blockData, last.playerBox, player.velocity)} :
       /\ r.onGround
          <=> \E p \in overlapping(blockData, last.playerBox) :
                pushesUp(calculateResolutionVector(last.playerBox, cubeOf(p)))
       /\ (\A p \in overlapping(blockData, last.playerBox) :
             p[2] * Unit >= last.playerBox.min[2])
          => ~r.onGround

\* the player collides with the floor and is pushed up by it
C22_Witness ==
  /\ last.op = "update"
  /\ last.collisions # <<>>
  /\ player.onGround
  /\ player.position[2] = FloorTop

\* the y of the meshes of the given kind in the column last generated
columnYs(kind) ==
  {last.blocks[i].position[2] :
     i \in {j \in DOMAIN last.blocks : last.blocks[j].blockType = kind}}

collidesAt(p) ==
  \E b \in legacyBlocks :
    \A i \in 1..3 : Abs(p[i] - b[i] * Unit) < playerRadius + blockHalfSize

\* the top face of the highest block the box at p reaches into
topOfHighest(p) ==
  LET hit == {b \in legacyBlocks :
                \A i \in 1..3 : Abs(p[i] - b[i] * Unit) < playerRadius + blockHalfSize}
  IN (CHOOSE b \in hit : \A c \in hit : c[2] <= b[2])[2] * Unit + blockHalfSize

\* C24: resolveBlockCollision zeroes velocity.x and velocity.z when the
\* horizontally moved position collides at body or at foot level; when the
\* vertically moved position collides it zeroes velocity.y, and lifts
\* position.y to the top of the highest colliding block plus playerRadius if
\* the player was falling and that is above the current y; it never lowers
\* position.y and never changes position.x or position.z
C24_TwoPhaseResolution ==
  last.op = "resolveBlockCollision"
  => LET p == last.position
         v == last.velocity
         moved == <<p[1] + v[1], p[2], p[3] + v[3]>>
         foot == <<p[1] + v[1], p[2] - playerRadius, p[3] + v[3]>>
         vertical == <<p[1], p[2] + v[2], p[3]>>
     IN /\ collidesAt(moved) \/ collidesAt(foot)
           => legacyPlayer.velocity[1] = 0 /\ legacyPlayer.velocity[3] = 0
        /\ v[2] < 0 /\ collidesAt(vertical)
           => /\ legacyPlayer.velocity[2] = 0
              /\ legacyPlayer.position[2] =
                   IF topOfHighest(vertical) + playerRadius > p[2]
                   THEN topOfHighest(vertical) + playerRadius
                   ELSE p[2]
        /\ v[2] > 0 /\ collidesAt(vertical)
           => legacyPlayer.velocity[2] = 0 /\ legacyPlayer.position = p
        /\ legacyPlayer.position[2] >= p[2]
        /\ legacyPlayer.position[1] = p[1]
        /\ legacyPlayer.position[3] = p[3]

\* a falling player is lifted onto the block it sank into while its
\* horizontal move is stopped too
C24_Witness ==
  /\ last.op = "resolveBlockCollision"
  /\ last.velocity[2] < 0
  /\ last.velocity[1] # 0
  /\ legacyPlayer.position[2] > last.position[2]
  /\ legacyPlayer.velocity = <<0, 0, 0>>

\* two boxes share interior points
boxesOverlap(box1, box2) ==
  \A a \in 1..3 : box1.min[a] < box2.max[a] /\ box2.min[a] < box1.max[a]

\* C25: Player.placeBlock calls World.placeBlock only if there is a target
\* block and the unit cube at the floored adjacent position does not overlap
\* the player's bounding box; otherwise the world is unchanged; no block is
\* put into a cell the player's box reaches into
C25_NeverPlacesIntoPlayer ==
  [][last'.op = "playerPlaceBlock"
     => LET free == /\ player.targetBlock # Null
                    /\ ~boxesOverlap(cubeOf(player.targetBlock.adjacentPosition),
                                     playerBoxOf(player))
        IN /\ last'.called => free
           /\ ~free => worldUnchanged
           /\ \A p \in (DOMAIN blockData') \ (DOMAIN blockData) :
                ~boxesOverlap(cubeOf(p), playerBoxOf(player'))]_vars

\* a block has been placed under the falling player
C25_Witness ==
  /\ last.op = "playerPlaceBlock"
  /\ last.called
  /\ last.ret
  /\ \E i \in DOMAIN collidableObjects :
       /\ collidableObjects[i].blockType = "stone"
       /\ collidableObjects[i].position[2] = FloorHeight + 1

\* C26: in every reachable state and for each resident chunk, the chunk's
\* block list holds a mesh at a position of the chunk if and only if
\* getBlockAt is not air there, every mesh of the list has the type getBlockAt
\* returns at its position, and no two meshes of the list share a position
C26_MeshesAgreeWithIndex ==
  \A i \in DOMAIN chunks :
    /\ \A p \in chunkPositions(chunks[i].key) :
         (\E j \in DOMAIN chunks[i].blocks : chunks[i].blocks[j].position = p)
         <=> kindAt(blockData, p) # "air"
    /\ \A j \in DOMAIN chunks[i].blocks :
         chunks[i].blocks[j].blockType = kindAt(blockData, chunks[i].blocks[j].position)
    /\ \A j, l \in DOMAIN chunks[i].blocks :
         chunks[i].blocks[j].position = chunks[i].blocks[l].position => j = l

\* the meshes of an array
meshesOf(meshes) == {meshes[i] : i \in DOMAIN meshes}

\* C27: after every World operation collidableObjects holds exactly the
\* meshes of the block lists of the resident chunks, and as many: no mesh of
\* an evicted chunk and none missing
C27_CollidableInSync ==
  \E listed \in {updateCollidableObjects(chunks)} :
    \/ collidableObjects = listed
    \/ /\ Len(collidableObjects) = Len(listed)
       /\ meshesOf(collidableObjects) = meshesOf(listed)

\* a block was placed after a load that evicted chunks: its mesh is at the
\* end of collidableObjects and inside the list of its chunk
C27_Witness ==
  /\ last.op = "placeBlock"
  /\ last.ret
  /\ collidableObjects # updateCollidableObjects(chunks)
  /\ \E g \in generated : ~chunksHas(chunks, g.key)

\* the meshes at position p in the block list of p's chunk
meshesAt(chs, p) ==
  LET key == chunkKeyOf(p[1], p[3])
  IN IF chunksHas(chs, key)
     THEN {chs[chunkIndex(chs, key)].blocks[j].blockType :
             j \in {i \in DOMAIN chs[chunkIndex(chs, key)].blocks :
                      chs[chunkIndex(chs, key)].blocks[i].position = p}}
     ELSE {}

\* C28: once the chunk of a position edited by placeBlock or removeBlock has
\* been evicted and generated again, getBlockAt at the position still returns
\* what the edit left (air after a removal, the placed kind after a
\* placement) and the chunk's block list agrees with it
C28_EditsSurviveReload ==
  \A p \in DOMAIN edits :
    edits[p].phase = "reloaded"
    => /\ kindAt(blockData, p) = edits[p].value
       /\ meshesAt(chunks, p) = IF edits[p].value = "air" THEN {} ELSE {edits[p].value}

\* C29: after any sequence of Game.start, stop and resetGame calls
\* interleaved with animation-frame callbacks at most one animate callback is
\* pending in requestAnimationFrame
C29_SingleLoop == frameRequests <= 1

\* path a is path b or an ancestor of it
isPrefix(a, b) == Len(a) <= Len(b) /\ SubSeq(b, 1, Len(a)) = a

\* how often the callback of the listener with this id was invoked
invocations(calls, id) == Cardinality({i \in DOMAIN calls : calls[i].id = id})

\* C30: a setSetting whose value equals the stored one returns false, invokes
\* no listener and does not save; any other stores the value, saves once and
\* invokes each listener registered on the path, on an ancestor of it or on
\* '*' exactly once
C30_SetSettingNotifiesOnce ==
  lastSetting.op = "setSetting"
  => IF lastSetting.stored = lastSetting.value
     THEN /\ ~lastSetting.ret
          /\ lastSetting.calls = <<>>
          /\ lastSetting.saves = 0
     ELSE /\ lastSetting.ret
          /\ storedAt(settings, lastSetting.path) = lastSetting.value
          /\ lastSetting.saves = 1
          /\ settingsStorage = settings
          /\ \A l \in changeListeners :
               isPrefix(l.path, lastSetting.path) \/ l.path = <<"*">>
               => invocations(lastSetting.calls, l.id) = 1

====
